---- MODULE Spec2Model ----
(***************************************************************************)
(* Generator-Validator supervision loop of the test-case manager           *)
(* (app/services/generator_validator_supervision_service.py) together with *)
(* the runners it drives (generator_executor_service.py,                   *)
(* validator_executor_service.py, code_executor.py).                       *)
(*                                                                         *)
(* Text is modelled as a sequence of one-character strings, so that        *)
(* rstrip('\n'), strip() and endswith('\n') are computed, not assumed.     *)
(* The LLM agents, the compiler, the compiled executables and the oracle   *)
(* interpreter are the environment: each call draws its outcome from a     *)
(* small set.                                                              *)
(***************************************************************************)
EXTENDS Integers, Sequences, FiniteSets, TLC

VARIABLES
    pc,                   \* position of generate_test_cases
    target_count,         \* argument target_count
    examples,             \* argument examples, reduced to the example inputs
    iteration,
    generator_code,
    generator_commands,   \* number of commands in the list
    validator_code,
    validation_errors,
    compilation_errors,
    sample_inputs,
    validation_outputs,
    generator_executable,
    validator_executable, \* behaviour of the compiled validator
    valid_cases,
    test_cases,
    result,               \* <<>> until the call returns, then <<dict>>
    llm_invoked,          \* history: an LLM-backed collaborator was called
    insertion_order,      \* history: accepted candidates in generation order
    oracle_log,           \* history: the runs of the final oracle pass
    compiler,             \* self.compiler.compiler: the C++ compiler found
    request,              \* a call to one of the stateless services
    response,             \* what that call handed back
    rest_call,            \* GeminiService.generate_content on the REST path
    auto_fix,             \* one call of _compile_with_auto_fix
    tasks,                \* concurrent invocations on one service instance
    temp_dir,             \* what the compiler's temp_dir holds
    executed              \* the executables run by the step just taken

supervisor_vars ==
    <<pc, target_count, examples, iteration, generator_code,
      generator_commands, validator_code, validation_errors,
      compilation_errors, sample_inputs, validation_outputs,
      generator_executable, validator_executable, valid_cases,
      test_cases, result, llm_invoked, insertion_order, oracle_log,
      compiler>>

service_vars == <<request, response, rest_call, auto_fix>>

shared_vars == <<tasks, temp_dir, executed>>

vars == <<supervisor_vars, service_vars, shared_vars>>

-----------------------------------------------------------------------------
(* Bounds *)

MaxTarget == 2
MaxCommands == 2
MaxIterations == 3
MaxOutputSize == 3
MaxBatch == 2
MaxLines == 2
MaxPreview == 2
MaxFixes == 2
MaxStdout == 3
MaxBatchCommands == 3

-----------------------------------------------------------------------------
(* Program constants *)

\* self.max_iterations (100 in the constructor), scaled to the bound
max_iterations == MaxIterations

\* CodeExecutor.max_output_size (10 MiB in the constructor), scaled to the
\* bound and counted in characters, as len(stdout) counts them
max_output_size == MaxOutputSize

NL == "\n"
None == "None"
NoText == <<>>

Min(a, b) == IF a < b THEN a ELSE b

-----------------------------------------------------------------------------
(* Python string primitives on sequences of characters *)

Whitespace == {" ", NL}

RECURSIVE rstrip_nl(_)
rstrip_nl(s) ==
    IF s # <<>> /\ s[Len(s)] = NL
    THEN rstrip_nl(SubSeq(s, 1, Len(s) - 1))
    ELSE s

RECURSIVE rstrip(_)
rstrip(s) ==
    IF s # <<>> /\ s[Len(s)] \in Whitespace
    THEN rstrip(SubSeq(s, 1, Len(s) - 1))
    ELSE s

RECURSIVE lstrip(_)
lstrip(s) ==
    IF s # <<>> /\ s[1] \in Whitespace
    THEN lstrip(Tail(s))
    ELSE s

strip(s) == lstrip(rstrip(s))

endswith_nl(s) == s # <<>> /\ s[Len(s)] = NL

-----------------------------------------------------------------------------
(* Environment: what the child processes can print *)

\* stdout of one generator run (exit status 0)
GenStdout ==
    { <<>>, <<NL>>, <<"a">>, <<"a", NL>>, <<"b", NL>>, <<"b", NL, NL>> }

\* one generator child process: exit status and captured stdout
GenRuns ==
    { [outcome |-> "exited", returncode |-> 1, stdout |-> <<>>] }
        \cup { [outcome |-> "exited", returncode |-> 0, stdout |-> s] :
                   s \in GenStdout }

\* stdout of one oracle run (exit status 0)
OracleStdout ==
    { <<NL>>, <<"x", NL>>, <<" ", "y", NL>> }

\* one oracle child process of the supervisor: non-zero exit, timeout,
\* overflow and a failed spawn all end in a failure record, which is all the
\* supervisor reads, so they are one outcome here
OracleRuns ==
    { [outcome |-> "exited", returncode |-> 1, stdout |-> <<>>] }
        \cup { [outcome |-> "exited", returncode |-> 0, stdout |-> s] :
                    s \in OracleStdout }

\* what a validator run reports: exit status 0, or the diagnostic text of a
\* rejection
ValidatorOk == "ok"
ValidatorDiagnostics == { "Expected EOLN", "Integer violates the range" }
\* which of the words line 497 looks for a diagnostic text contains
MarkersIn(text) ==
    CASE text = "Expected EOLN" -> {"EOLN", "Expected"}
      [] text = "Expected integer" -> {"Expected"}
      [] OTHER -> {}

\* a test for "EOLN" alone
MentionsEolnOnly(msg) ==
    \E i \in 1..Len(msg) : "EOLN" \in MarkersIn(msg[i])

\* line 497: "EOLN" in error_msg or "Expected" in error_msg
MentionsEoln(msg) ==
    \E i \in 1..Len(msg) : MarkersIn(msg[i]) \cap {"EOLN", "Expected"} # {}

-----------------------------------------------------------------------------
(* GeneratorExecutorService *)

\* generate_test_case handing back the stdout of the generator as it is
generate_test_case_raw(run) ==
    IF run.outcome # "exited"
    THEN [success |-> FALSE, input_data |-> NoText]
    ELSE IF run.returncode = 0
    THEN IF run.stdout = <<>> \/ strip(run.stdout) = <<>>
         THEN [success |-> FALSE, input_data |-> NoText]
         ELSE [success |-> TRUE, input_data |-> run.stdout]
    ELSE [success |-> FALSE, input_data |-> NoText]

\* generate_test_case: TimeoutExpired (lines 90-99) and any other exception
\* (lines 100-109) give a failure; an exit with status 0 gives the stdout
\* with its trailing newlines replaced by one (lines 52-79) unless it is
\* blank (lines 58-64); any other exit gives a failure (lines 80-88)
generate_test_case(run) ==
    IF run.outcome # "exited"
    THEN [success |-> FALSE, input_data |-> NoText]
    ELSE IF run.returncode = 0
    THEN IF run.stdout = <<>> \/ strip(run.stdout) = <<>>
         THEN [success |-> FALSE, input_data |-> NoText]
         ELSE [success |-> TRUE,
               input_data |-> rstrip_nl(run.stdout) \o <<NL>>]
    ELSE [success |-> FALSE, input_data |-> NoText]

\* number of commands generate_test_cases_batch runs:
\* target_count = max_cases or len(commands); stop at len(results) >= it
BatchSize(commands, max_cases) ==
    Min(commands, IF max_cases = 0 THEN commands ELSE max_cases)

generate_test_cases_batch(runs) ==
    [i \in 1..Len(runs) |-> generate_test_case(runs[i])]

\* generated_inputs = [r["input_data"] for r in results
\*                     if r["success"] and r["input_data"]]
RECURSIVE SuccessfulInputs(_)
SuccessfulInputs(results) ==
    IF results = <<>> THEN <<>>
    ELSE LET r == Head(results)
         IN  (IF r.success /\ r.input_data # NoText
              THEN <<r.input_data>> ELSE <<>>)
             \o SuccessfulInputs(Tail(results))

\* every candidate the generator runner can hand to the supervisor
Candidates ==
    { generate_test_case(r).input_data :
        r \in { q \in GenRuns : generate_test_case(q).success } }

\* the retry form of a rejected candidate (lines 499-509)
NormalizedInput(original_input) ==
    IF ~endswith_nl(original_input)
    THEN original_input \o <<NL>>
    ELSE rstrip_nl(original_input)

ExampleInputs == { <<"a", NL>> }

\* every text a validator is run on
InputStrings ==
    Candidates \cup { NormalizedInput(c) : c \in Candidates }
        \cup ExampleInputs

-----------------------------------------------------------------------------
(* ValidatorExecutorService *)

\* a compiled validator is a deterministic program: text -> report.  The
\* diagnostic of a run on a text without trailing newline is never read (such
\* a text only reaches a validator as a retry form, line 513, where only
\* 'valid' is read), so one diagnostic stands for all of them there.
Validators ==
    { v \in [InputStrings -> {ValidatorOk} \cup ValidatorDiagnostics] :
        \A t \in InputStrings :
            ~endswith_nl(t) => v[t] \in {ValidatorOk, "Expected EOLN"} }
NoExecutable == [x \in {} |-> ValidatorOk]

\* the child process of a validator that reports: exit status 0, or the
\* status testlib exits with on a rejection and the diagnostic on stderr
ValidatorChild(report) ==
    IF report = ValidatorOk
    THEN [outcome |-> "exited", returncode |-> 0,
          stderr |-> <<>>, stdout |-> <<>>]
    ELSE [outcome |-> "exited", returncode |-> 3,
          stderr |-> <<report, NL>>, stdout |-> <<>>]

\* _parse_validator_error: the stripped output, and the number after "Line"
\* when the output has one
parse_validator_error(error_output) ==
    [error_message |-> strip(error_output),
     error_line |-> IF \E i \in 1..Len(error_output) :
                           error_output[i] = "Line 2"
                    THEN 2 ELSE None]

\* line 134: the exit status logged as a crash of the validator, in its
\* signed 32-bit form (the other status the line tests for, 0xC0000139
\* unsigned, is handled the same way)
CrashStatuses == {0 - 1073741819}

\* the f-string form of an exit status (lines 115 and 128)
ExitCodeText(returncode) ==
    CASE returncode = 3 -> "3"
      [] returncode = 0 - 11 -> "-11"
      [] returncode = 0 - 1073741819 -> "-1073741819"
      [] OTHER -> "0"

\* lines 102-144 with both default messages (114-115, 127-128) left out
interpret_exit_no_default(run) ==
    IF run.returncode = 0
    THEN [valid |-> TRUE, error_message |-> None, error_line |-> None]
    ELSE LET error_output ==
                 IF run.stderr # <<>> THEN run.stderr ELSE run.stdout
             parsed == parse_validator_error(error_output)
         IN  [valid |-> FALSE,
              error_message |-> parsed.error_message,
              error_line |-> parsed.error_line]

\* lines 102-144: the exit status decides; the message of a rejection is
\* stderr, else stdout, else a default text
interpret_exit(run) ==
    IF run.returncode = 0
    THEN [valid |-> TRUE, error_message |-> None, error_line |-> None]
    ELSE LET captured ==
                 IF run.stderr # <<>> THEN run.stderr ELSE run.stdout
             error_output ==
                 IF strip(captured) = <<>>
                 THEN <<"Validator returned exit code",
                        ExitCodeText(run.returncode)>>
                 ELSE captured
             parsed == parse_validator_error(error_output)
         IN  [valid |-> FALSE,
              error_message |->
                  IF parsed.error_message = <<>>
                  THEN <<"Validation failed (exit code)",
                         ExitCodeText(run.returncode)>>
                  ELSE parsed.error_message,
              error_line |-> parsed.error_line]

\* validate_test_case on the way its child ends: TimeoutExpired (lines
\* 146-155), any other exception with its text (lines 156-165), or an exit
validate_run(run) ==
    IF run.outcome = "timeout"
    THEN [valid |-> FALSE, error_message |-> <<"Timeout apos 5s">>,
          error_line |-> None]
    ELSE IF run.outcome = "exception"
    THEN [valid |-> FALSE, error_message |-> run.message,
          error_line |-> None]
    ELSE interpret_exit(run)

validate_test_case(executable, input_data) ==
    validate_run(ValidatorChild(executable[input_data]))

\* line 192: the first characters of the candidate (100 in the source,
\* scaled to the bound)
input_preview(test_case) ==
    IF Len(test_case) > MaxPreview
    THEN SubSeq(test_case, 1, MaxPreview)
    ELSE test_case

\* lines 182-205: one result per test case, in order, each with its index
\* and preview
validate_runs_batch(runs, cases) ==
    [i \in 1..Len(cases) |->
        LET r == validate_run(runs[i])
        IN  [valid |-> r.valid,
             error_message |-> r.error_message,
             error_line |-> r.error_line,
             index |-> i - 1,
             input_preview |-> input_preview(cases[i])]]

validate_test_cases_batch(executable, cases) ==
    validate_runs_batch(
        [i \in 1..Len(cases) |-> ValidatorChild(executable[cases[i]])],
        cases)

-----------------------------------------------------------------------------
(* CodeExecutor *)

\* the failure record of _run_subprocess
Failure(error) == [success |-> FALSE, output |-> NoText, error |-> error]

\* _run_subprocess returning the captured stdout as it is
run_subprocess_unstripped(run) ==
    IF run.outcome = "spawn_error"
    THEN Failure("Erro ao executar codigo")
    ELSE IF run.outcome = "timeout"
    THEN Failure("Tempo limite excedido")
    ELSE IF Len(run.stdout) > max_output_size
    THEN Failure("Saida muito grande")
    ELSE IF run.returncode # 0
    THEN Failure("stderr")
    ELSE [success |-> TRUE, output |-> run.stdout, error |-> None]

\* _run_subprocess: Popen raises (lines 142-147), communicate times out
\* (lines 132-140), stdout is over the cap (lines 108-114), the exit status
\* is not 0 (lines 117-123), or success with stdout.strip() (lines 126-130)
run_subprocess(run) ==
    IF run.outcome = "spawn_error"
    THEN Failure("Erro ao executar codigo")
    ELSE IF run.outcome = "timeout"
    THEN Failure("Tempo limite excedido")
    ELSE IF Len(run.stdout) > max_output_size
    THEN Failure("Saida muito grande")
    ELSE IF run.returncode # 0
    THEN Failure("stderr")
    ELSE [success |-> TRUE, output |-> strip(run.stdout), error |-> None]

\* process.kill() of lines 109 and 134
kills_child(run) ==
    \/ run.outcome = "timeout"
    \/ run.outcome = "exited" /\ Len(run.stdout) > max_output_size

\* execute: the code file cannot be written (lines 73-81), or the record of
\* _run_subprocess copied field by field (lines 49-64)
execute(call) ==
    IF call.tempfile = "error"
    THEN Failure("Erro inesperado")
    ELSE LET r == run_subprocess(call.child)
         IN  IF r.success
             THEN [success |-> TRUE, output |-> r.output, error |-> None]
             ELSE [success |-> FALSE, output |-> NoText, error |-> r.error]

-----------------------------------------------------------------------------
(* GeneratorValidatorSupervisionService.generate_test_cases *)

GeneratorSource == "generator.cpp"
ValidatorSource == "validator.cpp"
MinimalValidatorSource == "minimal_validator.cpp"
GeneratorExe == "generator.exe"
CompilerPath == "g++"

GeneratorDiagnostics == "generator compile error"
ValidatorCompileDiagnostics == "validator compile error"
MinimalValidatorDiagnostics == "minimal validator compile error"

NothingGenerated == "Nenhum caso de teste foi gerado com sucesso"
DiversityReport == "DIVERSIDADE INSUFICIENTE"

\* no call to a stateless service was made, and nothing was handed back
NoRequest == [service |-> "none"]
NoResponse == [service |-> "none"]

\* no call to a stateless service is in flight
NoRestCall == [pc |-> "none"]
NoAutoFix == [pc |-> "none"]

NoServiceCall ==
    /\ request = NoRequest
    /\ response = NoResponse
    /\ rest_call = NoRestCall
    /\ auto_fix = NoAutoFix

\* no concurrent invocation is being followed
NoTasks ==
    /\ tasks = <<>>
    /\ temp_dir = <<>>
    /\ executed = {}

\* what generate_test_cases never writes
Untouched ==
    UNCHANGED <<compiler, request, response, rest_call, auto_fix, tasks,
                temp_dir, executed>>

Init ==
    /\ pc = "infer_format"
    /\ target_count \in 0..MaxTarget
    /\ examples \in {<<>>} \cup { <<e>> : e \in ExampleInputs }
    /\ iteration = 0
    /\ generator_code = None
    /\ generator_commands = 0
    /\ validator_code = None
    /\ validation_errors = <<>>
    /\ compilation_errors = None
    /\ sample_inputs = <<>>
    /\ validation_outputs = <<>>
    /\ generator_executable = None
    /\ validator_executable = NoExecutable
    /\ valid_cases = <<>>
    /\ test_cases = <<>>
    /\ result = <<>>
    /\ llm_invoked = FALSE
    /\ insertion_order = <<>>
    /\ oracle_log = <<>>
    /\ compiler \in {None, CompilerPath}
    /\ NoServiceCall
    /\ NoTasks

\* lines 170-186: format inference is awaited before the loop; its failure
\* is swallowed
InferFormat ==
    /\ pc = "infer_format"
    /\ llm_invoked' = TRUE
    /\ pc' = "loop_top"
    /\ Untouched
    /\ UNCHANGED <<target_count, examples, iteration, generator_code,
                   generator_commands, validator_code, validation_errors,
                   compilation_errors, sample_inputs, validation_outputs,
                   generator_executable, validator_executable, valid_cases,
                   test_cases, result, insertion_order, oracle_log>>

LoopFrame ==
    /\ Untouched
    /\ UNCHANGED <<target_count, examples, generator_code, generator_commands,
                validator_code, validation_errors, compilation_errors,
                sample_inputs, validation_outputs, generator_executable,
                validator_executable, valid_cases, test_cases, result,
                llm_invoked, insertion_order, oracle_log>>

\* a timeout check that lets the iteration start all the same
LoopTimeoutIgnored ==
    /\ pc = "loop_top"
    /\ pc' = "generator_agent"
    /\ UNCHANGED iteration
    /\ LoopFrame

\* lines 203-207: elapsed_time >= timeout_seconds (the clock is external)
LoopTimeout ==
    /\ pc = "loop_top"
    /\ pc' = "after_loop"
    /\ UNCHANGED iteration
    /\ LoopFrame

\* lines 210-212
LoopTargetReached ==
    /\ pc = "loop_top"
    /\ Len(valid_cases) >= target_count
    /\ pc' = "after_loop"
    /\ UNCHANGED iteration
    /\ LoopFrame

\* lines 214-221: the counter is incremented before it is compared
LoopIterationCap ==
    /\ pc = "loop_top"
    /\ Len(valid_cases) < target_count
    /\ iteration' = iteration + 1
    /\ iteration' > max_iterations
    /\ pc' = "after_loop"
    /\ LoopFrame

\* a pass through the loop that does not count itself
LoopEnterUncounted ==
    /\ pc = "loop_top"
    /\ Len(valid_cases) < target_count
    /\ UNCHANGED iteration
    /\ ~(iteration + 1 > max_iterations)
    /\ pc' = "generator_agent"
    /\ LoopFrame

LoopEnter ==
    /\ pc = "loop_top"
    /\ Len(valid_cases) < target_count
    /\ iteration' = iteration + 1
    /\ ~(iteration' > max_iterations)
    /\ pc' = "generator_agent"
    /\ LoopFrame

AgentFrame ==
    /\ Untouched
    /\ UNCHANGED <<target_count, examples, iteration, validation_outputs,
                sample_inputs, valid_cases, test_cases, result,
                insertion_order, oracle_log>>

\* lines 225-231
GenerateGenerator ==
    /\ pc = "generator_agent"
    /\ generator_code = None
    /\ llm_invoked' = TRUE
    /\ \E n \in 1..MaxCommands :
        /\ generator_code' = GeneratorSource
        /\ generator_commands' = n
    /\ pc' = "compile_generator"
    /\ AgentFrame
    /\ UNCHANGED <<validator_code, validation_errors, compilation_errors,
                   generator_executable, validator_executable>>

\* lines 232-242
ReviseGenerator ==
    /\ pc = "generator_agent"
    /\ generator_code # None
    /\ llm_invoked' = TRUE
    /\ \E n \in 1..MaxCommands :
        /\ generator_code' = GeneratorSource
        /\ generator_commands' = n
    /\ pc' = "compile_generator"
    /\ AgentFrame
    /\ UNCHANGED <<validator_code, validation_errors, compilation_errors,
                   generator_executable, validator_executable>>

\* the agent call raises: the except clause of lines 605-607 continues
GeneratorAgentRaises ==
    /\ pc = "generator_agent"
    /\ llm_invoked' = TRUE
    /\ pc' = "loop_top"
    /\ AgentFrame
    /\ UNCHANGED <<generator_code, generator_commands, validator_code,
                   validation_errors, compilation_errors,
                   generator_executable, validator_executable>>

\* lines 234-239: what revise_generator_program is called with
revise_generator_arguments ==
    [generator_code |-> generator_code,
     validation_errors |-> validation_errors,
     compilation_errors |-> compilation_errors]

\* lines 246-262: _compile_with_auto_fix returns success, directly or after
\* fixes by the agent; without a compiler compile_generator fails at once
\* (cpp_compiler_service.py lines 106-113)
CompileGeneratorSucceeds ==
    /\ pc = "compile_generator"
    /\ compiler # None
    /\ generator_executable' = GeneratorExe
    /\ compilation_errors' = None
    /\ pc' = "validator_agent"
    /\ AgentFrame
    /\ UNCHANGED <<generator_code, generator_commands, validator_code,
                   validation_errors, validator_executable, llm_invoked>>

\* lines 255-259: _compile_with_auto_fix returns failure
CompileGeneratorFails ==
    /\ pc = "compile_generator"
    /\ compilation_errors' = GeneratorDiagnostics
    /\ validation_errors' = <<>>
    /\ pc' = "loop_top"
    /\ AgentFrame
    /\ UNCHANGED <<generator_code, generator_commands, validator_code,
                   generator_executable, validator_executable, llm_invoked>>

\* lines 265-270
GenerateValidator ==
    /\ pc = "validator_agent"
    /\ validator_code = None
    /\ llm_invoked' = TRUE
    /\ validator_code' = ValidatorSource
    /\ pc' = "compile_validator"
    /\ AgentFrame
    /\ UNCHANGED <<generator_code, generator_commands, validation_errors,
                   compilation_errors, generator_executable,
                   validator_executable>>

\* lines 271-283
ReviseValidator ==
    /\ pc = "validator_agent"
    /\ validator_code # None
    /\ llm_invoked' = TRUE
    /\ validator_code' = ValidatorSource
    /\ pc' = "compile_validator"
    /\ AgentFrame
    /\ UNCHANGED <<generator_code, generator_commands, validation_errors,
                   compilation_errors, generator_executable,
                   validator_executable>>

ValidatorAgentRaises ==
    /\ pc = "validator_agent"
    /\ llm_invoked' = TRUE
    /\ pc' = "loop_top"
    /\ AgentFrame
    /\ UNCHANGED <<generator_code, generator_commands, validator_code,
                   validation_errors, compilation_errors,
                   generator_executable, validator_executable>>

\* lines 275-282: what revise_validator_program is called with
revise_validator_arguments ==
    [validator_code |-> validator_code,
     sample_inputs |-> sample_inputs,
     validation_outputs |-> validation_outputs,
     compilation_errors |-> compilation_errors]

\* lines 304-316 and 351-352: the validator compiles; the new executable is
\* some validator program
CompileValidatorSucceeds ==
    /\ pc = "compile_validator"
    /\ compiler # None
    /\ validator_code' = ValidatorSource
    /\ validator_executable' \in Validators
    /\ compilation_errors' = None
    /\ pc' = "validate_samples"
    /\ AgentFrame
    /\ UNCHANGED <<generator_code, generator_commands, validation_errors,
                   generator_executable, llm_invoked>>

\* lines 318-349: the validator does not compile and no minimal validator
\* takes its place (line 323 false, or generate_minimal_validator_code
\* raises, lines 341-345)
ValidatorCompileGivenUp ==
    /\ pc = "compile_validator"
    /\ validator_code' = ValidatorSource
    /\ compilation_errors' = ValidatorCompileDiagnostics
    /\ validation_errors' = <<>>
    /\ pc' = "loop_top"
    /\ AgentFrame
    /\ UNCHANGED <<generator_code, generator_commands,
                   generator_executable, validator_executable, llm_invoked>>

\* lines 323-335 and 351-352: the minimal validator compiles
MinimalValidatorCompiles ==
    /\ pc = "compile_validator"
    /\ compiler # None
    /\ iteration >= 1 /\ sample_inputs # <<>>
    /\ validator_code' = MinimalValidatorSource
    /\ validator_executable' \in Validators
    /\ compilation_errors' = None
    /\ pc' = "validate_samples"
    /\ AgentFrame
    /\ UNCHANGED <<generator_code, generator_commands, validation_errors,
                   generator_executable, llm_invoked>>

\* lines 336-340
MinimalValidatorFailsToCompile ==
    /\ pc = "compile_validator"
    /\ iteration >= 1 /\ sample_inputs # <<>>
    /\ validator_code' = MinimalValidatorSource
    /\ compilation_errors' = MinimalValidatorDiagnostics
    /\ validation_errors' = <<>>
    /\ pc' = "loop_top"
    /\ AgentFrame
    /\ UNCHANGED <<generator_code, generator_commands,
                   generator_executable, validator_executable, llm_invoked>>

\* lines 367-369: the diagnostics of the samples the validator rejects
FailedSamples(executable, inputs) ==
    LET sample_validations == validate_test_cases_batch(executable, inputs)
        failed_samples == SelectSeq(sample_validations, LAMBDA v : ~v.valid)
    IN  [i \in 1..Len(failed_samples) |-> failed_samples[i].error_message]

SamplesFrame ==
    /\ Untouched
    /\ UNCHANGED <<target_count, examples, iteration, generator_code,
                generator_commands, validation_errors, compilation_errors,
                generator_executable, valid_cases, test_cases, result,
                llm_invoked, insertion_order, oracle_log>>

\* line 362: no examples, step 5 is skipped
SamplesSkipped ==
    /\ pc = "validate_samples"
    /\ examples = <<>>
    /\ pc' = "run_generator"
    /\ SamplesFrame
    /\ UNCHANGED <<sample_inputs, validation_outputs, validator_code,
                   validator_executable>>

\* lines 364-369 with no failed sample
SamplesAccepted ==
    /\ pc = "validate_samples"
    /\ examples # <<>>
    /\ sample_inputs' = examples
    /\ FailedSamples(validator_executable, examples) = <<>>
    /\ pc' = "run_generator"
    /\ SamplesFrame
    /\ UNCHANGED <<validation_outputs, validator_code, validator_executable>>

\* lines 400-455: a sample is rejected and the validator in use stays the
\* one that rejected it (before iteration 3, or the minimal validator could
\* not be built: line 396 raises, line 393 does not compile)
SamplesRejected ==
    /\ pc = "validate_samples"
    /\ examples # <<>>
    /\ sample_inputs' = examples
    /\ FailedSamples(validator_executable, examples) # <<>>
    /\ \/ UNCHANGED validator_code
       \/ /\ iteration >= 3
          /\ validator_code' = MinimalValidatorSource
    /\ validation_outputs' = FailedSamples(validator_executable, examples)
    /\ pc' = "loop_top"
    /\ SamplesFrame
    /\ UNCHANGED validator_executable

\* the minimal validator is kept and the iteration goes on to generation
\* whatever it says of the samples
SamplesMinimalValidatorAnyway ==
    /\ pc = "validate_samples"
    /\ examples # <<>>
    /\ sample_inputs' = examples
    /\ FailedSamples(validator_executable, examples) # <<>>
    /\ iteration >= 3
    /\ compiler # None
    /\ validator_code' = MinimalValidatorSource
    /\ validator_executable' \in Validators
    /\ UNCHANGED validation_outputs
    /\ pc' = "run_generator"
    /\ SamplesFrame

\* lines 370-392: from iteration 3 on the minimal validator replaces a
\* validator that rejects samples, and the samples are run again
SamplesMinimalValidator ==
    /\ pc = "validate_samples"
    /\ examples # <<>>
    /\ sample_inputs' = examples
    /\ FailedSamples(validator_executable, examples) # <<>>
    /\ iteration >= 3
    /\ compiler # None
    /\ validator_code' = MinimalValidatorSource
    /\ \E m \in Validators :
        /\ validator_executable' = m
        /\ IF FailedSamples(m, examples) # <<>>
           THEN /\ validation_outputs' = FailedSamples(m, examples)
                /\ pc' = "loop_top"
           ELSE /\ UNCHANGED validation_outputs
                /\ pc' = "run_generator"
    /\ SamplesFrame

\* the for loop of lines 487-532 from index i on; st carries the four lists
\* the loop appends to
RECURSIVE FilterLoop(_, _, _, _, _)
FilterLoop(i, st, inputs, validation_results, executable) ==
    IF i > Len(validation_results) THEN st
    ELSE
      LET original_input == inputs[i]
          res == validation_results[i]
          normalized_input == NormalizedInput(original_input)
          rejected == [st EXCEPT !.invalid_cases = Append(@, original_input)]
      IN
        IF res.valid
        THEN FilterLoop(i + 1,
                 [st EXCEPT !.new_valid_cases = Append(@, original_input)],
                 inputs, validation_results, executable)
        ELSE IF /\ MentionsEoln(res.error_message)
                /\ normalized_input # <<>>
             THEN LET revalidated ==
                          [rejected EXCEPT
                              !.revalidated = Append(@, normalized_input)]
                  IN  IF validate_test_cases_batch(
                             executable, <<normalized_input>>)[1].valid
                      THEN FilterLoop(i + 1,
                               [revalidated EXCEPT
                                   !.valid_cases =
                                       Append(@, normalized_input)],
                               inputs, validation_results, executable)
                      ELSE FilterLoop(i + 1,
                               [revalidated EXCEPT
                                   !.validation_errors =
                                       Append(@, res.error_message)],
                               inputs, validation_results, executable)
             ELSE FilterLoop(i + 1,
                      [rejected EXCEPT
                          !.validation_errors = Append(@, res.error_message)],
                      inputs, validation_results, executable)

\* lines 478-537: validate the batch, accumulate (line 535)
FilterBatch(inputs, executable, accumulated) ==
    LET st == FilterLoop(1,
                  [valid_cases |-> accumulated,
                   new_valid_cases |-> <<>>,
                   invalid_cases |-> <<>>,
                   validation_errors |-> <<>>,
                   revalidated |-> <<>>],
                  inputs, validate_test_cases_batch(executable, inputs),
                  executable)
    IN  [generated_inputs |-> inputs,
         revalidated |-> st.revalidated,
         valid_cases |-> st.valid_cases \o st.new_valid_cases,
         new_valid_cases |-> st.new_valid_cases,
         invalid_cases |-> st.invalid_cases,
         validation_errors |-> st.validation_errors]

\* the accepted form of each candidate of a batch, in command order
RECURSIVE AcceptedInOrder(_, _)
AcceptedInOrder(inputs, executable) ==
    IF inputs = <<>> THEN <<>>
    ELSE
      LET x == Head(inputs)
          res == validate_test_case(executable, x)
          n == NormalizedInput(x)
      IN  (IF res.valid THEN <<x>>
           ELSE IF /\ MentionsEoln(res.error_message)
                   /\ n # <<>>
                   /\ validate_test_case(executable, n).valid
                THEN <<n>>
                ELSE <<>>)
          \o AcceptedInOrder(Tail(inputs), executable)

\* lines 459-469: generated_inputs of a batch of k commands, one child
\* process per command
GeneratedInputs ==
    [k \in 0..MaxCommands |->
        { SuccessfulInputs(generate_test_cases_batch(runs)) :
            runs \in [1..k -> GenRuns] }]

BatchInputs ==
    GeneratedInputs[BatchSize(generator_commands, target_count * 2)]

RunFrame ==
    /\ Untouched
    /\ UNCHANGED <<target_count, examples, iteration, generator_code,
                generator_commands, validator_code, compilation_errors,
                sample_inputs, validation_outputs, generator_executable,
                validator_executable, result, llm_invoked, oracle_log>>

\* an iteration without candidates that throws the accumulator away
GeneratorProducesNothingClearing(inputs) ==
    /\ pc = "run_generator"
    /\ inputs = <<>>
    /\ validation_errors' = <<NothingGenerated>>
    /\ valid_cases' = <<>>
    /\ pc' = "loop_top"
    /\ RunFrame
    /\ UNCHANGED <<test_cases, insertion_order>>

\* lines 459-474 with no usable candidate
GeneratorProducesNothingFor(inputs) ==
    /\ pc = "run_generator"
    /\ inputs = <<>>
    /\ validation_errors' = <<NothingGenerated>>
    /\ pc' = "loop_top"
    /\ RunFrame
    /\ UNCHANGED <<valid_cases, test_cases, insertion_order>>

GeneratorProducesNothing == \E inputs \in BatchInputs : GeneratorProducesNothingFor(inputs)

\* lines 540-544: no candidate was rejected
AllCandidatesValidFor(inputs) ==
    /\ pc = "run_generator"
    /\  LET f == FilterBatch(inputs, validator_executable, valid_cases)
        IN  /\ f.generated_inputs # <<>>
            /\ Len(f.invalid_cases) = 0
            /\ valid_cases' = f.valid_cases
            /\ insertion_order' = insertion_order
                   \o AcceptedInOrder(f.generated_inputs, validator_executable)
    /\ validation_errors' = <<>>
    /\ pc' = "loop_top"
    /\ RunFrame
    /\ UNCHANGED test_cases

AllCandidatesValid == \E inputs \in BatchInputs : AllCandidatesValidFor(inputs)

\* a SomeCandidatesValid that keeps the rejection messages
SomeCandidatesValidKeepingLog(inputs) ==
    /\ pc = "run_generator"
    /\  LET f == FilterBatch(inputs, validator_executable, valid_cases)
        IN  /\ f.generated_inputs # <<>>
            /\ Len(f.invalid_cases) # 0
            /\ Len(f.new_valid_cases) > 0
            /\ valid_cases' = f.valid_cases
            /\ validation_errors' = f.validation_errors
            /\ insertion_order' = insertion_order
                   \o AcceptedInOrder(f.generated_inputs, validator_executable)
    /\ pc' = "loop_top"
    /\ RunFrame
    /\ UNCHANGED test_cases

\* lines 547-551: some candidates were accepted as generated
SomeCandidatesValidFor(inputs) ==
    /\ pc = "run_generator"
    /\  LET f == FilterBatch(inputs, validator_executable, valid_cases)
        IN  /\ f.generated_inputs # <<>>
            /\ Len(f.invalid_cases) # 0
            /\ Len(f.new_valid_cases) > 0
            /\ valid_cases' = f.valid_cases
            /\ insertion_order' = insertion_order
                   \o AcceptedInOrder(f.generated_inputs, validator_executable)
    /\ validation_errors' = <<>>
    /\ pc' = "loop_top"
    /\ RunFrame
    /\ UNCHANGED test_cases

SomeCandidatesValid == \E inputs \in BatchInputs : SomeCandidatesValidFor(inputs)

\* line 555 false: the iteration ends with the rejection messages kept
BelowTargetFor(inputs) ==
    /\ pc = "run_generator"
    /\  LET f == FilterBatch(inputs, validator_executable, valid_cases)
        IN  /\ f.generated_inputs # <<>>
            /\ Len(f.invalid_cases) # 0
            /\ Len(f.new_valid_cases) = 0
            /\ ~(Len(f.valid_cases) >= target_count)
            /\ valid_cases' = f.valid_cases
            /\ validation_errors' = f.validation_errors
            /\ insertion_order' = insertion_order
                   \o AcceptedInOrder(f.generated_inputs, validator_executable)
    /\ pc' = "loop_top"
    /\ RunFrame
    /\ UNCHANGED test_cases

BelowTarget == \E inputs \in BatchInputs : BelowTargetFor(inputs)

\* valid_cases without the slice
TruncateNothing(cases, n) == cases

\* valid_cases[:target_count]
Truncate(cases, n) == SubSeq(cases, 1, Min(n, Len(cases)))

\* the oracle loops of lines 560-566 and 619-625: runs[i] is the child
\* process started for cases[i]
RECURSIVE OraclePairs(_, _)
OraclePairs(cases, runs) ==
    IF cases = <<>> THEN <<>>
    ELSE LET res == execute([tempfile |-> "ok", child |-> Head(runs)])
         IN  (IF res.success /\ res.output # NoText
              THEN <<[input |-> Head(cases), output |-> res.output]>>
              ELSE <<>>)
             \o OraclePairs(Tail(cases), Tail(runs))

\* unique_outputs of line 570
UniqueOutputs(cases) == { strip(cases[i].output) : i \in 1..Len(cases) }

\* lines 555-569 reached: every candidate of the batch was rejected as
\* generated, and retried forms filled the accumulator up to the target
DiversityStage(f) ==
    /\ f.generated_inputs # <<>>
    /\ Len(f.invalid_cases) # 0
    /\ Len(f.new_valid_cases) = 0
    /\ Len(f.valid_cases) >= target_count

\* the oracle children of lines 560-561, one per checked candidate (the
\* diversity stage checks target_count candidates)
DiversityOracleRuns == [1..target_count -> OracleRuns]

\* line 583: the characters of the repeated output that the report quotes
ReportedOutputChars == 100

\* a report that does not quote the repeated output
InsufficientDiversityUnnamed(cases) ==
    << <<DiversityReport, "casos", Len(cases)>>,
       <<"Saida repetida">>,
       <<"O gerador deve criar casos que produzam saidas variadas">>,
       <<"Analise o codigo oraculo">>,
       <<"Gere casos que testem todos os caminhos">> >>

\* lines 581-587: the report of a diversity rejection; its first line counts
\* the cases, its second quotes the repeated output, three lines of advice
\* follow
InsufficientDiversity(cases) ==
    LET repeated == strip(CHOOSE o \in UniqueOutputs(cases) : TRUE)
    IN  << <<DiversityReport, "casos", Len(cases)>>,
           <<"Saida repetida">>
               \o SubSeq(repeated, 1, Min(ReportedOutputChars, Len(repeated))),
           <<"O gerador deve criar casos que produzam saidas variadas">>,
           <<"Analise o codigo oraculo">>,
           <<"Gere casos que testem todos os caminhos">> >>

\* line 569 false (no oracle run gave an output): nothing is decided
DiversityNoOutputsWith(inputs, oracle_runs) ==
    /\ pc = "run_generator"
    /\  LET f == FilterBatch(inputs, validator_executable, valid_cases)
            checked == Truncate(f.valid_cases, target_count)
        IN  /\ DiversityStage(f)
            /\ Len(oracle_runs) = Len(checked)
            /\ OraclePairs(checked, oracle_runs) = <<>>
            /\ valid_cases' = f.valid_cases
            /\ validation_errors' = f.validation_errors
            /\ insertion_order' = insertion_order
                   \o AcceptedInOrder(f.generated_inputs, validator_executable)
    /\ test_cases' = <<>>
    /\ pc' = "loop_top"
    /\ RunFrame

DiversityNoOutputsFor(inputs) ==
    \E oracle_runs \in DiversityOracleRuns :
        DiversityNoOutputsWith(inputs, oracle_runs)

DiversityNoOutputs == \E inputs \in BatchInputs : DiversityNoOutputsFor(inputs)

\* lines 576-594: one distinct output, the accumulator is thrown away
DiversityRejectedWith(inputs, oracle_runs) ==
    /\ pc = "run_generator"
    /\  LET f == FilterBatch(inputs, validator_executable, valid_cases)
            checked == Truncate(f.valid_cases, target_count)
            tcs == OraclePairs(checked, oracle_runs)
        IN  /\ DiversityStage(f)
            /\ Len(oracle_runs) = Len(checked)
            /\ tcs # <<>>
            /\ Cardinality(UniqueOutputs(tcs)) = 1
            /\ validation_errors' = InsufficientDiversity(tcs)
    /\ test_cases' = <<>>
    /\ valid_cases' = <<>>
    /\ insertion_order' = <<>>
    /\ pc' = "loop_top"
    /\ RunFrame

DiversityRejectedFor(inputs) ==
    \E oracle_runs \in DiversityOracleRuns :
        DiversityRejectedWith(inputs, oracle_runs)

DiversityRejected == \E inputs \in BatchInputs : DiversityRejectedFor(inputs)

\* lines 596-603: more than one distinct output, the loop is left
DiversityAcceptedWith(inputs, oracle_runs) ==
    /\ pc = "run_generator"
    /\  LET f == FilterBatch(inputs, validator_executable, valid_cases)
            checked == Truncate(f.valid_cases, target_count)
            tcs == OraclePairs(checked, oracle_runs)
        IN  /\ DiversityStage(f)
            /\ Len(oracle_runs) = Len(checked)
            /\ tcs # <<>>
            /\ Cardinality(UniqueOutputs(tcs)) # 1
            /\ test_cases' = tcs
            /\ valid_cases' = f.valid_cases
            /\ validation_errors' = f.validation_errors
            /\ insertion_order' = insertion_order
                   \o AcceptedInOrder(f.generated_inputs, validator_executable)
    /\ pc' = "after_loop"
    /\ RunFrame

DiversityAcceptedFor(inputs) ==
    \E oracle_runs \in DiversityOracleRuns :
        DiversityAcceptedWith(inputs, oracle_runs)

DiversityAccepted == \E inputs \in BatchInputs : DiversityAcceptedFor(inputs)

\* the call returning an empty suite where line 611 raises
ReturnNoValidCases ==
    /\ pc = "after_loop"
    /\ valid_cases = <<>>
    /\ result' = << [test_cases |-> <<>>,
                     total_generated |-> 0,
                     generator_code |-> generator_code,
                     validator_code |-> validator_code,
                     generator_commands |-> generator_commands,
                     iterations |-> iteration,
                     method |-> "generator_validator"] >>
    /\ pc' = "returned"
    /\ Untouched
    /\ UNCHANGED <<target_count, examples, iteration, generator_code,
                   generator_commands, validator_code, validation_errors,
                   compilation_errors, sample_inputs, validation_outputs,
                   generator_executable, validator_executable, valid_cases,
                   test_cases, llm_invoked, insertion_order, oracle_log>>

\* lines 610-611
RaiseNoValidCases ==
    /\ pc = "after_loop"
    /\ valid_cases = <<>>
    /\ pc' = "raised"
    /\ Untouched
    /\ UNCHANGED <<target_count, examples, iteration, generator_code,
                   generator_commands, validator_code, validation_errors,
                   compilation_errors, sample_inputs, validation_outputs,
                   generator_executable, validator_executable, valid_cases,
                   test_cases, result, llm_invoked, insertion_order,
                   oracle_log>>

OracleLog(cases, runs) ==
    [i \in 1..Len(cases) |->
        [input |-> cases[i], returncode |-> runs[i].returncode,
         stdout |-> runs[i].stdout]]

\* lines 613-637
FinalOracleAndReturn ==
    /\ pc = "after_loop"
    /\ valid_cases # <<>>
    /\ valid_cases' = Truncate(valid_cases, target_count)
    /\ \E runs \in [1..Len(valid_cases') -> OracleRuns] :
        /\ test_cases' = OraclePairs(valid_cases', runs)
        /\ oracle_log' = OracleLog(valid_cases', runs)
    /\ result' = << [test_cases |-> test_cases',
                     total_generated |-> Len(test_cases'),
                     generator_code |-> generator_code,
                     validator_code |-> validator_code,
                     generator_commands |-> generator_commands,
                     iterations |-> iteration,
                     method |-> "generator_validator"] >>
    /\ pc' = "returned"
    /\ Untouched
    /\ UNCHANGED <<target_count, examples, iteration, generator_code,
                   generator_commands, validator_code, validation_errors,
                   compilation_errors, sample_inputs, validation_outputs,
                   generator_executable, validator_executable, llm_invoked,
                   insertion_order>>

Next ==
    \/ InferFormat
    \/ LoopTimeout
    \/ LoopTargetReached
    \/ LoopIterationCap
    \/ LoopEnter
    \/ GenerateGenerator
    \/ ReviseGenerator
    \/ GeneratorAgentRaises
    \/ CompileGeneratorSucceeds
    \/ CompileGeneratorFails
    \/ GenerateValidator
    \/ ReviseValidator
    \/ ValidatorAgentRaises
    \/ CompileValidatorSucceeds
    \/ ValidatorCompileGivenUp
    \/ MinimalValidatorCompiles
    \/ MinimalValidatorFailsToCompile
    \/ SamplesSkipped
    \/ SamplesAccepted
    \/ SamplesRejected
    \/ SamplesMinimalValidator
    \/ GeneratorProducesNothing
    \/ AllCandidatesValid
    \/ SomeCandidatesValid
    \/ BelowTarget
    \/ DiversityNoOutputs
    \/ DiversityRejected
    \/ DiversityAccepted
    \/ RaiseNoValidCases
    \/ FinalOracleAndReturn

Spec == Init /\ [][Next]_vars

-----------------------------------------------------------------------------
(* Properties of a normal return *)

Returned == pc = "returned"
Suite == result[1].test_cases
SuiteInputs == [i \in 1..Len(Suite) |-> Suite[i].input]
RunInputs == [i \in 1..Len(oracle_log) |-> oracle_log[i].input]

\* C1: a returned suite of at least 2 entries has at least 2 distinct
\* stripped outputs (diversity floor), however the loop was left.
C1_DiversityFloor ==
    Returned /\ Len(Suite) >= 2
        => Cardinality({ strip(Suite[i].output) : i \in 1..Len(Suite) }) >= 2

\* C2: every returned input is accepted (exit status 0) by the validator
\* executable last compiled and used in the call.
C2_AcceptedByLastValidator ==
    Returned
        => \A i \in 1..Len(Suite) :
               validator_executable[Suite[i].input] = ValidatorOk

\* text `out` is `stdout` without its leading and trailing whitespace
IsStripped(out, stdout) ==
    /\ out = <<>> \/ (out[1] \notin Whitespace
                        /\ out[Len(out)] \notin Whitespace)
    /\ \E lead \in 0..Len(stdout) :
        /\ lead + Len(out) <= Len(stdout)
        /\ SubSeq(stdout, lead + 1, lead + Len(out)) = out
        /\ \A k \in 1..Len(stdout) :
               (k <= lead \/ k > lead + Len(out)) => stdout[k] \in Whitespace

\* text `out` is `stdout` without its trailing whitespace only
IsRightStripped(out, stdout) ==
    /\ out = <<>> \/ out[Len(out)] \notin Whitespace
    /\ Len(out) <= Len(stdout)
    /\ SubSeq(stdout, 1, Len(out)) = out
    /\ \A k \in 1..Len(stdout) : k > Len(out) => stdout[k] \in Whitespace

\* the pairs of `suite`, in order, come from distinct successful runs of
\* `log`, in order, each pair with the input of its run and an output that is
\* the stdout of its run stripped (at both ends, or at the right end only)
RECURSIVE PairedWithRuns(_, _, _)
PairedWithRuns(suite, log, both_ends) ==
    IF suite = <<>> THEN TRUE
    ELSE IF log = <<>> THEN FALSE
    ELSE \/ /\ Head(log).returncode = 0
            /\ Head(suite).input = Head(log).input
            /\ IF both_ends
               THEN IsStripped(Head(suite).output, Head(log).stdout)
               ELSE IsRightStripped(Head(suite).output, Head(log).stdout)
            /\ PairedWithRuns(Tail(suite), Tail(log), both_ends)
         \/ PairedWithRuns(suite, Tail(log), both_ends)

\* C3 (as claimed): every returned output is the stdout of the oracle run on
\* the paired input with its trailing whitespace stripped.
C3_OutputIsStdoutRightStripped ==
    Returned => PairedWithRuns(Suite, oracle_log, FALSE)

\* C3 (amended): every returned output is the stdout of the successful oracle
\* run on the paired input with its leading and trailing whitespace stripped;
\* no pair carries the output of another input or of a failed run.
C3_OutputIsStdoutStripped ==
    Returned => PairedWithRuns(Suite, oracle_log, TRUE)

\* C3 witness: a returned pair whose oracle run printed leading whitespace,
\* next to a failed run that left no pair
C3_Witness ==
    /\ Returned
    /\ Len(oracle_log) = 2 /\ Len(Suite) = 1
    /\ oracle_log[1].returncode # 0
    /\ oracle_log[2].stdout = <<" ", "y", NL>>
    /\ Suite[1].output = <<"y">>
    /\ Suite[1].input = oracle_log[2].input
    /\ oracle_log[1].input # oracle_log[2].input

\* C4: a normal return carries at most target_count test cases.
C4_SizeAtMostTarget ==
    Returned => Len(Suite) <= target_count

\* C4 witness: more candidates were accumulated than the target asks for
C4_Witness ==
    /\ Returned
    /\ Len(insertion_order) > target_count
    /\ Len(Suite) = target_count

\* the keys a response could use to say that it is partial
PartialMarkers == { "partial", "is_partial", "status", "budget_exhausted" }

\* C5: a return with fewer than target_count test cases is marked partial.
C5_PartialIsMarked ==
    Returned /\ Len(Suite) < target_count
        => DOMAIN result[1] \cap PartialMarkers # {}

ExactlyOneTrailingNewline(s) ==
    /\ Len(s) >= 1
    /\ s[Len(s)] = NL
    /\ Len(s) >= 2 => s[Len(s) - 1] # NL

\* C6: every returned input ends with exactly one trailing newline.
C6_OneTrailingNewline ==
    Returned
        => \A i \in 1..Len(Suite) : ExactlyOneTrailingNewline(Suite[i].input)

\* C7: the reported iteration count never exceeds the iteration cap.
C7_IterationsWithinCap ==
    Returned => result[1].iterations <= max_iterations

\* C8: with target_count = 0 the call returns an empty suite normally and
\* invokes no LLM-backed collaborator.
C8_ZeroTargetReturnsEmpty ==
    target_count = 0 /\ pc \in {"returned", "raised"}
        => /\ pc = "returned"
           /\ Suite = <<>>
           /\ ~llm_invoked

\* the error log is the report of a diversity rejection
DiversityReported ==
    /\ Len(validation_errors) = 5
    /\ Len(validation_errors[1]) = 3
    /\ validation_errors[1][1] = DiversityReport

\* C9: with target_count = 1 no accumulator is ever rejected for
\* insufficient diversity.
C9_SingleEntryNotRejected ==
    target_count = 1 => ~DiversityReported

RECURSIVE IsSubsequence(_, _)
IsSubsequence(s, t) ==
    IF s = <<>> THEN TRUE
    ELSE IF t = <<>> THEN FALSE
    ELSE IF Head(s) = Head(t) THEN IsSubsequence(Tail(s), Tail(t))
    ELSE IsSubsequence(s, Tail(t))

\* C10: the oracle is run on the accepted candidates in generator insertion
\* order and the returned suite lists them in that order.
C10_InsertionOrder ==
    Returned
        => /\ RunInputs = Truncate(insertion_order, target_count)
           /\ IsSubsequence(SuiteInputs, RunInputs)

-----------------------------------------------------------------------------
(* Terminal failures and budget *)

\* C11: a call whose accumulated candidates all make the oracle fail does not
\* return normally (it ends in the terminal failure OracleAllFailed).
C11_OracleAllFailedIsAnError ==
    ~ /\ Returned
      /\ oracle_log # <<>>
      /\ \A i \in 1..Len(oracle_log) : oracle_log[i].returncode # 0

\* C12: when the loop is left with an empty accumulator the call raises and
\* hands back no result, and no normal return starts from an empty
\* accumulator.
C12_NoCandidatesRaises ==
    [][ /\ (pc = "after_loop" /\ valid_cases = <<>>)
            => (pc' = "raised" /\ result' = <<>>)
        /\ (pc' = "returned" /\ pc # "returned") => valid_cases # <<>>
      ]_vars

\* C12 witness: the loop ran, was left with nothing accumulated, and the
\* call raised
C12_Witness ==
    /\ pc = "raised"
    /\ target_count >= 1
    /\ iteration >= 1
    /\ valid_cases = <<>>
    /\ result = <<>>

\* C13: a failure of a generator-agent or validator-agent call ends the call
\* with an error; no further iteration follows it.
C13_AgentFailureIsTerminal ==
    [][ (GeneratorAgentRaises \/ ValidatorAgentRaises) => pc' = "raised" ]_vars

\* C14: without a native compiler, once compilation has been attempted, the
\* call ends without an exception escaping it (a ToolchainMissing outcome, no
\* suite).
C14_ToolchainMissingNoException ==
    compiler = None /\ compilation_errors = GeneratorDiagnostics
        => pc # "raised"

\* C15: every iteration starts from the budget check at the top of the loop;
\* a check that finds the budget spent leaves the loop; after the loop is
\* left no agent call, compilation, generator run or validator run is
\* started; with a non-empty accumulator the call returns normally, the
\* oracle having run on the first target_count accumulated candidates and the
\* suite listing those whose run gave an output.
C15_TimeoutStopsTheLoop ==
    [][ /\ (pc' = "generator_agent" /\ pc # "generator_agent")
            => pc = "loop_top"
        /\ LoopTimeout => pc' = "after_loop"
        /\ pc = "after_loop"
            => /\ pc' \in {"after_loop", "returned", "raised"}
               /\ UNCHANGED <<iteration, generator_code, generator_commands,
                              validator_code, generator_executable,
                              validator_executable, insertion_order>>
        /\ (pc = "after_loop" /\ pc' # "after_loop" /\ valid_cases # <<>>)
            => /\ pc' = "returned"
               /\ RunInputs' = Truncate(valid_cases, target_count)
               /\ IsSubsequence(SuiteInputs', RunInputs')
        /\ pc \in {"returned", "raised"} => UNCHANGED vars
      ]_vars

\* C15 witness: the call returned on the timeout (below the target, within
\* the iteration cap) with the candidates accumulated so far
C15_Witness ==
    /\ Returned
    /\ iteration >= 1 /\ iteration <= max_iterations
    /\ Len(insertion_order) >= 1
    /\ Len(insertion_order) < target_count
    /\ Len(Suite) = Len(insertion_order)

\* every run of the final oracle pass exits with status 0 and the same
\* visible stdout
ConstantOracle ==
    /\ oracle_log # <<>>
    /\ \A i \in 1..Len(oracle_log) :
        /\ oracle_log[i].returncode = 0
        /\ oracle_log[i].stdout = oracle_log[1].stdout
        /\ strip(oracle_log[i].stdout) # <<>>

\* a candidate was accumulated as generated (the generator runner's trailing
\* newline is still on it): the filtering that accepted it did not go on to
\* the diversity stage, which runs only when no candidate is accepted as
\* generated
AcceptedAsGenerated ==
    \E i \in 1..Len(insertion_order) : endswith_nl(insertion_order[i])

\* C17: with an oracle that prints the same output for every input and
\* target_count >= 2, a call whose accumulator reached target_count returns
\* only after the loop went back to generator revision (a second iteration)
\* at least once.
C17_ConstantOracleForcesRevision ==
    ( /\ Returned
      /\ target_count >= 2
      /\ Len(insertion_order) >= target_count
      /\ ConstantOracle
      /\ AcceptedAsGenerated )
        => result[1].iterations >= 2

-----------------------------------------------------------------------------
(* The stateless services, called on their own *)

\* the supervisor is not running while a service is called on its own
SupervisorIdle ==
    /\ pc = "idle"
    /\ target_count = 0
    /\ examples = <<>>
    /\ iteration = 0
    /\ generator_code = None
    /\ generator_commands = 0
    /\ validator_code = None
    /\ validation_errors = <<>>
    /\ compilation_errors = None
    /\ sample_inputs = <<>>
    /\ validation_outputs = <<>>
    /\ generator_executable = None
    /\ validator_executable = NoExecutable
    /\ valid_cases = <<>>
    /\ test_cases = <<>>
    /\ result = <<>>
    /\ llm_invoked = FALSE
    /\ insertion_order = <<>>
    /\ oracle_log = <<>>
    /\ compiler = CompilerPath

ServiceFrame ==
    UNCHANGED <<supervisor_vars, shared_vars, request, rest_call, auto_fix>>

\* what a child interpreter can write: text=True decodes its bytes, and one
\* character of the decoded text can come from more than one byte
ExecutorAlphabet == {"x", "U+00E9", "\n"}

\* the bytes one character takes on the pipe
ByteWidth(ch) == IF ch = "U+00E9" THEN 2 ELSE 1

RECURSIVE encoded_size(_)
\* the size in bytes of the stdout the child wrote
encoded_size(s) ==
    IF s = <<>> THEN 0 ELSE ByteWidth(Head(s)) + encoded_size(Tail(s))

ExecutorStdout ==
    UNION { [1..n -> ExecutorAlphabet] : n \in 0..(MaxOutputSize + 1) }

\* every way the child of _run_subprocess can end
ExecutorRuns ==
    { [outcome |-> "exited", returncode |-> rc, stdout |-> s] :
          rc \in {0, 1}, s \in ExecutorStdout }
        \cup { [outcome |-> o, returncode |-> 0 - 9, stdout |-> <<>>] :
                   o \in {"timeout", "spawn_error"} }

\* a call execute(code, input_data): whether the code file can be written,
\* and how the child ends
ExecuteRequest(t, run) ==
    [service |-> "execute", tempfile |-> t, child |-> run]

\* CodeExecutor.execute called once; no exception leaves it, so the call
\* always hands back a record
Execute ==
    /\ request.service = "execute"
    /\ response = NoResponse
    /\ response' =
         [service |-> "execute",
          raised |-> FALSE,
          value |-> execute([tempfile |-> request.tempfile,
                             child |-> request.child]),
          killed |-> request.tempfile = "ok" /\ kills_child(request.child)]
    /\ ServiceFrame

\* the candidates handed to validate_test_cases_batch
BatchCandidates == { <<"1", NL>>, <<"1", " ", "2">> }

ValidatorStderr ==
    { <<>>, <<NL>>, <<"Expected EOLN", NL>>, <<" ", "Line 2", NL>> }
ValidatorStdout == { <<" ">>, <<"Integer violates the range">> }

\* every way the child of subprocess.run (lines 84-93) can end: an exit, a
\* death by signal (negative status), TimeoutExpired, or an exception of
\* the spawn, whose text is the message of the operating system
ValidatorRuns ==
    { [outcome |-> "exited", returncode |-> rc, stderr |-> e, stdout |-> o,
       message |-> <<>>] :
          rc \in {0, 3}, e \in ValidatorStderr, o \in ValidatorStdout }
        \cup { [outcome |-> "exited", returncode |-> rc, stderr |-> e,
                stdout |-> <<>>, message |-> <<>>] :
                   rc \in CrashStatuses, e \in {<<>>, <<"Expected EOLN", NL>>} }
        \cup { [outcome |-> "exited", returncode |-> 0 - 11,
                stderr |-> <<>>, stdout |-> <<>>, message |-> <<>>],
               [outcome |-> "timeout", returncode |-> 0 - 9,
                stderr |-> <<>>, stdout |-> <<>>, message |-> <<>>],
               [outcome |-> "exception", returncode |-> 0 - 9,
                stderr |-> <<>>, stdout |-> <<>>,
                message |-> <<"[Errno 8] Exec format error">>] }

\* a call validate_test_cases_batch(test_cases), and how the child of each
\* candidate ends
ValidateBatchRequest(tc, rs) ==
    [service |-> "validate_test_cases_batch", test_cases |-> tc, runs |-> rs]

\* ValidatorExecutorService.validate_test_cases_batch called once: the loop
\* of lines 186-193 has no statement that raises for a list of strings
ValidateTestCasesBatch ==
    /\ request.service = "validate_test_cases_batch"
    /\ response = NoResponse
    /\ response' =
         [service |-> "validate_test_cases_batch",
          raised |-> FALSE,
          value |-> validate_runs_batch(request.runs, request.test_cases)]
    /\ ServiceFrame

\* the line types InputLine accepts (format_schema.py lines 35-45)
LineTypes ==
    { "integer", "two_integers", "three_integers", "array", "string",
      "matrix", "edge", "graph_edges", "custom" }

\* the line types a reply of the LLM is drawn from: two the schema accepts
\* and one it does not
ReplyLineTypes == { "integer", "array", "bogus" }

\* the JSON value a reply carries: not an object, or an object described by
\* what FormatSchema reads of it (total_lines is <<>> when the key is absent)
JsonArray ==
    [kind |-> "array", input_structure |-> "absent", lines |-> <<>>,
     total_lines |-> <<>>, has_test_count |-> FALSE, graph |-> "absent"]

JsonObjects ==
    { [kind |-> "object", input_structure |-> "absent", lines |-> <<>>,
       total_lines |-> <<>>, has_test_count |-> h, graph |-> g] :
          h \in BOOLEAN, g \in {"absent", "valid", "invalid"} }
      \cup
    UNION { { [kind |-> "object", input_structure |-> "present",
               lines |-> ls, total_lines |-> t, has_test_count |-> h,
               graph |-> g] :
                  ls \in [1..n -> ReplyLineTypes],
                  t \in {<<>>} \cup { <<k>> : k \in 0..MaxLines },
                  h \in BOOLEAN,
                  g \in {"absent", "valid", "invalid"} } : n \in 0..MaxLines }

\* what generate_content does: it raises, or it returns a text; of the text,
\* which of the four strategies of _parse_json_response find the JSON value
\* it carries
LlmReplies ==
    { [outcome |-> "raises", hits |-> {}, payload |-> JsonArray] }
      \cup { [outcome |-> "text", hits |-> hs, payload |-> v] :
                 hs \in SUBSET (1..4), v \in {JsonArray} \cup JsonObjects }

ParseFailed == [kind |-> "ValueError"]

\* _parse_json_response: the strategies in order, the first whose
\* json.loads succeeds returns whatever value it parsed; ValueError when
\* none does
parse_json_response(reply) ==
    IF \E k \in 1..4 : k \in reply.hits
    THEN reply.payload
    ELSE ParseFailed

\* FormatSchema(**schema_dict): the argument is a mapping, input_structure
\* is given with total_lines, and every line has an accepted type
FormatSchemaAccepts(schema_dict) ==
    /\ schema_dict.kind = "object"
    /\ schema_dict.input_structure = "present"
    /\ schema_dict.total_lines # <<>>
    /\ \A i \in 1..Len(schema_dict.lines) : schema_dict.lines[i] \in LineTypes

FormatSchema(schema_dict) ==
    [has_test_count |-> schema_dict.has_test_count,
     lines |-> schema_dict.lines,
     total_lines |-> schema_dict.total_lines[1],
     graph |-> schema_dict.graph]

\* _log_schema_summary reads schema.graph_constraints (line 191), which
\* builds GraphConstraints from the dictionary and raises when it does not fit
log_schema_summary_raises(schema) == schema.graph = "invalid"

\* _fallback_schema
fallback_schema ==
    [has_test_count |-> FALSE,
     lines |-> <<"integer">>,
     total_lines |-> 1,
     graph |-> "absent"]

\* the body of the try of infer_format, lines 54-71
try_infer_format(reply) ==
    IF reply.outcome = "raises"
    THEN [raised |-> TRUE, value |-> None]
    ELSE LET schema_dict == parse_json_response(reply)
         IN  IF schema_dict = ParseFailed
             THEN [raised |-> TRUE, value |-> None]
             ELSE IF ~FormatSchemaAccepts(schema_dict)
             THEN [raised |-> TRUE, value |-> None]
             ELSE IF log_schema_summary_raises(FormatSchema(schema_dict))
             THEN [raised |-> TRUE, value |-> None]
             ELSE [raised |-> FALSE, value |-> FormatSchema(schema_dict)]

\* infer_format without its except clause
infer_format_unguarded(reply) == try_infer_format(reply)

\* infer_format: the except clause of lines 73-76 answers every exception of
\* the try with the fallback schema
infer_format(reply) ==
    LET r == try_infer_format(reply)
    IN  IF r.raised
        THEN [raised |-> FALSE, value |-> fallback_schema]
        ELSE r

\* what a generator can write to its stdout
GeneratorAlphabet == {"a", " ", NL}
GeneratorStdout ==
    UNION { [1..n -> GeneratorAlphabet] : n \in 0..MaxStdout }

\* every way the child of subprocess.run (lines 42-48) can end
GeneratorRuns ==
    { [outcome |-> "exited", returncode |-> rc, stdout |-> s] :
          rc \in {0, 1}, s \in GeneratorStdout }
        \cup { [outcome |-> o, returncode |-> 0 - 9, stdout |-> <<>>] :
                   o \in {"timeout", "exception"} }

\* a call generate_test_case(command), and how the child ends
GenerateRequest(run) == [service |-> "generate_test_case", run |-> run]

\* GeneratorExecutorService.generate_test_case called once
GenerateTestCase ==
    /\ request.service = "generate_test_case"
    /\ response = NoResponse
    /\ response' = [service |-> "generate_test_case",
                    raised |-> FALSE,
                    value |-> generate_test_case(request.run)]
    /\ ServiceFrame

\* the option names a generator source can declare with opt<T>("name") and
\* a command can use as -name
Flags == {"n", "t"}

\* a generator source as the agent reads it: whether it is complete, the
\* options it declares, and its ./gen command lines, each reduced to the
\* set of flags it uses
GeneratorSources ==
    UNION { { [complete |-> c, opt_params |-> d, commands |-> cs] :
                 c \in BOOLEAN, d \in SUBSET Flags,
                 cs \in [1..n -> SUBSET Flags] } : n \in 0..MaxCommands }

\* what generate_content does for the generator agent: it raises, or its
\* text carries a generator source
GeneratorReplies ==
    { [outcome |-> "raises",
       code |-> [complete |-> FALSE, opt_params |-> {}, commands |-> <<>>]] }
      \cup { [outcome |-> "text", code |-> c] : c \in GeneratorSources }

\* _extract_opt_params: the names matched by REGEX_OPT_PARAMS
extract_opt_params(code) == code.opt_params

\* CodeExtractionService.extract_commands: the lines that start with ./gen
extract_commands(code) == code.commands

\* range(20) of _generate_fallback_commands
FallbackCommandCount == 20

\* _generate_fallback_commands: twenty commands, each with every declared
\* option
generate_fallback_commands(opt_params) ==
    [i \in 1..FallbackCommandCount |-> opt_params]

AgentRaised == [raised |-> TRUE, generator_code |-> None,
                generator_commands |-> <<>>]

\* generate_generator_program: an exception of the LLM is re-raised (lines
\* 78-80); an incomplete source goes to _fix_partial_code, which calls
\* methods the class does not have (lines 95-97) and so raises; else the
\* commands are the ones extracted from the source (line 64), or the
\* fallback commands when there are none (lines 67-70)
generate_generator_program(reply) ==
    IF reply.outcome = "raises"
    THEN AgentRaised
    ELSE IF ~reply.code.complete
    THEN AgentRaised
    ELSE LET generator_commands_0 == extract_commands(reply.code)
         IN  [raised |-> FALSE,
              generator_code |-> reply.code,
              generator_commands |->
                  IF generator_commands_0 = <<>>
                  THEN generate_fallback_commands(
                           extract_opt_params(reply.code))
                  ELSE generator_commands_0]

\* a call generate_generator_program(problem_statement, ...), and what the
\* LLM does
GenerateGeneratorRequest(r) ==
    [service |-> "generate_generator_program", reply |-> r]

\* GeneratorAgentService.generate_generator_program called once
GenerateGeneratorProgram ==
    /\ request.service = "generate_generator_program"
    /\ response = NoResponse
    /\ LET r == generate_generator_program(request.reply)
       IN  response' = [service |-> "generate_generator_program",
                        raised |-> r.raised,
                        value |-> r]
    /\ ServiceFrame

\* a call infer_format(statement, examples, constraints), and what the LLM
\* does
InferFormatRequest(r) == [service |-> "infer_format", reply |-> r]

\* InputFormatInferenceService.infer_format called once
InferFormatCall ==
    /\ request.service = "infer_format"
    /\ response = NoResponse
    /\ LET r == infer_format(request.reply)
       IN  response' = [service |-> "infer_format",
                        raised |-> r.raised,
                        value |-> r.value]
    /\ ServiceFrame
\* the loop test that lets one result too many in
batch_full_late(results, batch_target) == Len(results) > batch_target

\* line 133: if len(results) >= target_count: break
batch_full(results, batch_target) == Len(results) >= batch_target

\* lines 132-142: the for loop of generate_test_cases_batch from command i
\* on (i counts from 1, the index stored counts from 0)
RECURSIVE BatchLoop(_, _, _, _, _)
BatchLoop(i, results, commands, batch_target, runs) ==
    IF i > Len(commands) \/ batch_full(results, batch_target)
    THEN results
    ELSE LET r == generate_test_case(runs[i])
         IN  BatchLoop(i + 1,
                       Append(results,
                              [success |-> r.success,
                               input_data |-> r.input_data,
                               command |-> commands[i],
                               index |-> i - 1]),
                       commands, batch_target, runs)

\* generate_test_cases_batch(commands, max_cases): line 129 takes
\* len(commands) as the limit when max_cases is 0 or None
BatchResults(commands, max_cases, runs) ==
    BatchLoop(1, <<>>, commands,
              IF max_cases = 0 THEN Len(commands) ELSE max_cases, runs)

\* the command lines of a generator, and the limits the supervisor passes:
\* max_cases = target_count * 2 (line 461), with target_count at least 1
\* because the loop ends at line 210 otherwise
CommandLines == {"./gen -n 1", "./gen -n 2"}
SupervisorMaxCases == { t * 2 : t \in 1..MaxTarget }

\* a call generate_test_cases_batch(commands, max_cases), and how the child
\* of each command would end
GenerateBatchRequest(commands, max_cases, runs) ==
    [service |-> "generate_test_cases_batch", commands |-> commands,
     max_cases |-> max_cases, runs |-> runs]

\* GeneratorExecutorService.generate_test_cases_batch called once
GenerateTestCasesBatch ==
    /\ request.service = "generate_test_cases_batch"
    /\ response = NoResponse
    /\ response' = [service |-> "generate_test_cases_batch",
                    value |-> BatchResults(request.commands,
                                           request.max_cases, request.runs)]
    /\ ServiceFrame

\* what generate_content does for a revision: it raises, or its text
\* carries a generator source, between <<CODE>> and <<ENDCODE>> or not
RevisionReplies ==
    { [outcome |-> r.outcome, code |-> r.code, delimited |-> d] :
         r \in GeneratorReplies, d \in BOOLEAN }

\* _extract_code_strict: the text between the markers, or ""
NoCode == [complete |-> FALSE, opt_params |-> {}, commands |-> <<>>,
           empty |-> TRUE]
extract_code_strict(reply) ==
    IF reply.delimited
    THEN [complete |-> reply.code.complete,
          opt_params |-> reply.code.opt_params,
          commands |-> reply.code.commands,
          empty |-> FALSE]
    ELSE NoCode

\* revise_generator_program: an exception of the LLM is re-raised; without
\* strict code line 387 calls self._extract_code_without_markdown, with it
\* line 393 calls self._extract_commands_from_code; GeneratorAgentService
\* defines neither, so both raise AttributeError, which lines 404-406
\* re-raise
revise_generator_program(reply) ==
    IF reply.outcome = "raises"
    THEN AgentRaised
    ELSE LET revised_code == extract_code_strict(reply)
         IN  IF revised_code.empty
             THEN AgentRaised
             ELSE AgentRaised

\* a call revise_generator_program(problem_statement, current code,
\* validation_errors, compilation_errors), and what the LLM does
ReviseGeneratorRequest(r) ==
    [service |-> "revise_generator_program", reply |-> r]

\* GeneratorAgentService.revise_generator_program called once
ReviseGeneratorProgram ==
    /\ request.service = "revise_generator_program"
    /\ response = NoResponse
    /\ LET r == revise_generator_program(request.reply)
       IN  response' = [service |-> "revise_generator_program",
                        raised |-> r.raised,
                        value |-> r]
    /\ ServiceFrame


ServiceInit ==
    /\ SupervisorIdle
    /\ NoTasks
    /\ response = NoResponse
    /\ rest_call = NoRestCall
    /\ auto_fix = NoAutoFix
    /\ \/ \E t \in {"ok", "error"}, run \in ExecutorRuns :
              request = ExecuteRequest(t, run)
       \/ \E n \in 0..MaxBatch :
              \E tc \in [1..n -> BatchCandidates],
                 rs \in [1..n -> ValidatorRuns] :
                  request = ValidateBatchRequest(tc, rs)
       \/ \E r \in LlmReplies : request = InferFormatRequest(r)
       \/ \E run \in GeneratorRuns : request = GenerateRequest(run)
       \/ \E r \in GeneratorReplies : request = GenerateGeneratorRequest(r)
       \/ \E r \in RevisionReplies : request = ReviseGeneratorRequest(r)
       \/ \E n \in 0..MaxBatchCommands, m \in SupervisorMaxCases :
             \E cs \in [1..n -> CommandLines], runs \in [1..n -> GenRuns] :
                request = GenerateBatchRequest(cs, m, runs)

ServiceNext ==
    \/ Execute
    \/ ValidateTestCasesBatch
    \/ InferFormatCall
    \/ GenerateTestCase
    \/ GenerateGeneratorProgram
    \/ ReviseGeneratorProgram
    \/ GenerateTestCasesBatch

ServiceSpec == ServiceInit /\ [][ServiceNext]_vars

-----------------------------------------------------------------------------
(* Concurrent invocations of generate_test_cases on one service instance *)

\* the invocations that run as tasks of one event loop; both use the one
\* GeneratorValidatorSupervisionService of the TestCaseService singleton and
\* so the one CppCompilerService with its one temp_dir
Invocations == {1, 2}

\* self.max_compilation_fixes (3 in the constructor), scaled to the bound
max_compilation_fixes == MaxFixes

\* compile_generator and compile_validator write fixed file names in
\* temp_dir: output_name = "gen" and output_name = "validator"
NoFile == <<>>

\* a source text is identified by the invocation that obtained it, the
\* iteration and the number of compile fixes it went through (fix - 1 is
\* the minimal validator)
Tag(t, code) == <<t>> \o code
MinimalValidator(task) == <<task.iteration, 0 - 1>>

\* lines 201-221 and 605-607: continue goes to the head of the loop, which
\* breaks at the cap or starts the next iteration and awaits the generator
\* agent
NextIteration(task) ==
    IF task.iteration >= max_iterations
    THEN [task EXCEPT !.pc = "done", !.fix_attempt = 0]
    ELSE [task EXCEPT !.pc = "generator_agent",
                      !.iteration = @ + 1,
                      !.fix_attempt = 0]

ConcurrentFrame == UNCHANGED <<supervisor_vars, service_vars>>

\* compile_func(current_code) of line 69 for the generator: success writes
\* temp_dir/gen and the loop returns to line 261 and on to the await of the
\* validator agent; failure counts a fix and awaits revise_func
CompileGenerator(t, code, ok) ==
    IF ok
    THEN /\ tasks' = [tasks EXCEPT ![t] =
                        [@ EXCEPT !.generator_code = code,
                                  !.generator_executable = "gen",
                                  !.fix_attempt = 0,
                                  !.pc = "validator_agent"]]
         /\ temp_dir' = [temp_dir EXCEPT !.gen = Tag(t, code)]
    ELSE /\ tasks' = [tasks EXCEPT ![t] =
                        [@ EXCEPT !.generator_code = code,
                                  !.fix_attempt = @ + 1,
                                  !.pc = "generator_fix"]]
         /\ UNCHANGED temp_dir

\* lines 227-246: the generator agent answers and its program is compiled
TaskGeneratorAgentReturns(t) ==
    /\ tasks[t].pc = "generator_agent"
    /\ \E ok \in BOOLEAN :
          CompileGenerator(t, <<tasks[t].iteration, 0>>, ok)
    /\ executed' = {}
    /\ ConcurrentFrame

\* lines 605-607: an exception of the agent ends the iteration
TaskGeneratorAgentRaises(t) ==
    /\ tasks[t].pc = "generator_agent"
    /\ tasks' = [tasks EXCEPT ![t] = NextIteration(@)]
    /\ UNCHANGED temp_dir
    /\ executed' = {}
    /\ ConcurrentFrame

\* lines 67-115: revise_func answers; the loop compiles the revised program
\* while fix_attempt is below the limit, else it returns the failure with
\* the revised program and line 255 ends the iteration
TaskGeneratorFixReturns(t) ==
    /\ tasks[t].pc = "generator_fix"
    /\ LET code == <<tasks[t].iteration, tasks[t].fix_attempt>>
       IN  IF tasks[t].fix_attempt < max_compilation_fixes
           THEN \E ok \in BOOLEAN : CompileGenerator(t, code, ok)
           ELSE /\ tasks' = [tasks EXCEPT ![t] =
                               NextIteration([@ EXCEPT
                                   !.generator_code = code])]
                /\ UNCHANGED temp_dir
    /\ executed' = {}
    /\ ConcurrentFrame

\* lines 108-111: revise_func raises, the loop breaks with the failure
TaskGeneratorFixRaises(t) ==
    /\ tasks[t].pc = "generator_fix"
    /\ tasks' = [tasks EXCEPT ![t] = NextIteration(@)]
    /\ UNCHANGED temp_dir
    /\ executed' = {}
    /\ ConcurrentFrame

\* one run of an executable: the source the invocation holds for that role
\* and the source the file it executes was compiled from
ValidatorRun(t, code, dir) ==
    [task |-> t, role |-> "validator", source |-> Tag(t, code),
     binary |-> dir.validator]
GeneratorRun(t) ==
    [task |-> t, role |-> "generator",
     source |-> Tag(t, tasks[t].generator_code),
     binary |-> temp_dir.gen]

\* lines 351-603 after a validator was compiled, with no await in them:
\* temp_dir/validator is run on the samples; when they fail the iteration
\* ends (from iteration 3 on after a minimal validator was compiled and
\* run too); else temp_dir/gen is run, the candidates are validated, and
\* the loop ends or goes on
RunExecutables(t, code) ==
    \E outcome \in {"samples_fail", "samples_fail_minimal",
                    "target_reached", "next"} :
       LET task == [tasks[t] EXCEPT !.validator_code = code]
           minimal == MinimalValidator(task)
           compiled == [temp_dir EXCEPT !.validator = Tag(t, code)]
           replaced == [temp_dir EXCEPT !.validator = Tag(t, minimal)]
       IN  CASE outcome = "samples_fail" ->
                  /\ tasks' = [tasks EXCEPT ![t] = NextIteration(task)]
                  /\ temp_dir' = compiled
                  /\ executed' = {ValidatorRun(t, code, compiled)}
             [] outcome = "samples_fail_minimal" ->
                  /\ task.iteration >= 3
                  /\ tasks' = [tasks EXCEPT ![t] =
                                 NextIteration([task EXCEPT
                                     !.validator_code = minimal])]
                  /\ temp_dir' = replaced
                  /\ executed' = {ValidatorRun(t, code, compiled),
                                  ValidatorRun(t, minimal, replaced)}
             [] outcome = "target_reached" ->
                  /\ tasks' = [tasks EXCEPT ![t] =
                                 [task EXCEPT !.pc = "done",
                                              !.fix_attempt = 0]]
                  /\ temp_dir' = compiled
                  /\ executed' = {ValidatorRun(t, code, compiled),
                                  GeneratorRun(t)}
             [] outcome = "next" ->
                  /\ tasks' = [tasks EXCEPT ![t] = NextIteration(task)]
                  /\ temp_dir' = compiled
                  /\ executed' = {ValidatorRun(t, code, compiled),
                                  GeneratorRun(t)}

\* compile_func(current_code) of line 69 for the validator: success goes on
\* to run the executables; failure counts a fix and awaits revise_func
CompileValidator(t, code, ok) ==
    IF ok
    THEN RunExecutables(t, code)
    ELSE /\ tasks' = [tasks EXCEPT ![t] =
                        [@ EXCEPT !.validator_code = code,
                                  !.fix_attempt = @ + 1,
                                  !.pc = "validator_fix"]]
         /\ UNCHANGED temp_dir
         /\ executed' = {}

\* lines 318-349: the validator did not compile; the minimal validator is
\* compiled in its place and run, or the iteration ends
ValidatorGivenUp(t, code) ==
    \/ RunExecutables(t, MinimalValidator(tasks[t]))
    \/ /\ tasks' = [tasks EXCEPT ![t] =
                       NextIteration([@ EXCEPT !.validator_code = code])]
       /\ UNCHANGED temp_dir
       /\ executed' = {}

\* lines 267-316: the validator agent answers and its program is compiled
TaskValidatorAgentReturns(t) ==
    /\ tasks[t].pc = "validator_agent"
    /\ \E ok \in BOOLEAN :
          CompileValidator(t, <<tasks[t].iteration, 0>>, ok)
    /\ ConcurrentFrame

TaskValidatorAgentRaises(t) ==
    /\ tasks[t].pc = "validator_agent"
    /\ tasks' = [tasks EXCEPT ![t] = NextIteration(@)]
    /\ UNCHANGED temp_dir
    /\ executed' = {}
    /\ ConcurrentFrame

TaskValidatorFixReturns(t) ==
    /\ tasks[t].pc = "validator_fix"
    /\ LET code == <<tasks[t].iteration, tasks[t].fix_attempt>>
       IN  IF tasks[t].fix_attempt < max_compilation_fixes
           THEN \E ok \in BOOLEAN : CompileValidator(t, code, ok)
           ELSE ValidatorGivenUp(t, code)
    /\ ConcurrentFrame

TaskValidatorFixRaises(t) ==
    /\ tasks[t].pc = "validator_fix"
    /\ ValidatorGivenUp(t, tasks[t].validator_code)
    /\ ConcurrentFrame

ConcurrentInit ==
    /\ SupervisorIdle
    /\ NoServiceCall
    /\ tasks = [t \in Invocations |->
                  [pc |-> "generator_agent",
                   iteration |-> 1,
                   generator_code |-> <<>>,
                   validator_code |-> <<>>,
                   fix_attempt |-> 0,
                   generator_executable |-> None]]
    /\ temp_dir = [gen |-> NoFile, validator |-> NoFile]
    /\ executed = {}

ConcurrentNext ==
    \E t \in Invocations :
        \/ TaskGeneratorAgentReturns(t)
        \/ TaskGeneratorAgentRaises(t)
        \/ TaskGeneratorFixReturns(t)
        \/ TaskGeneratorFixRaises(t)
        \/ TaskValidatorAgentReturns(t)
        \/ TaskValidatorAgentRaises(t)
        \/ TaskValidatorFixReturns(t)
        \/ TaskValidatorFixRaises(t)

ConcurrentSpec == ConcurrentInit /\ [][ConcurrentNext]_vars

-----------------------------------------------------------------------------
(* GeminiService.generate_content on the REST path *)

\* max_retries = 5 of line 881
max_retries == 5

\* for api_version in ["v1", "v1beta"]
ApiVersions == <<"v1", "v1beta">>

\* the loop position moves to the next API version of the same key, or
\* past the last version to the next key (without sleeping); after the last
\* key lines 953-955 raise the last error, or the error that no version
\* worked
NextVersion(c) ==
    IF c.api_version < Len(ApiVersions)
    THEN [c EXCEPT !.api_version = @ + 1, !.attempt = 0, !.retry_delay = 2]
    ELSE IF c.key_index < c.api_keys
    THEN [c EXCEPT !.key_index = @ + 1, !.api_version = 1, !.attempt = 0,
                   !.retry_delay = 2]
    ELSE [c EXCEPT !.pc = "raised",
                   !.error = IF c.last_error THEN "last_error"
                             ELSE "no_version_worked"]

\* await asyncio.sleep(seconds) after the last request sent
Slept(c, seconds) ==
    [c EXCEPT !.sleeps = Append(@, [request |-> Len(c.log),
                                     seconds |-> seconds])]

\* what the call has sent so far, with the status it got
Logged(c, status) ==
    [c EXCEPT !.log = Append(@, [key |-> c.key_index,
                                  api_version |-> ApiVersions[c.api_version],
                                  status |-> status])]

RestFrame ==
    UNCHANGED <<supervisor_vars, shared_vars, request, response, auto_fix>>

\* lines 906-916: status 200 with a text part: the stripped text is returned
PostReturnsText ==
    /\ rest_call.pc = "post"
    /\ rest_call' = [Logged(rest_call, 200) EXCEPT !.pc = "returned"]
    /\ RestFrame

\* lines 889-891 and 919: status 404, or 200 without a text part: the
\* attempts with this API version end
PostNotUsable ==
    /\ rest_call.pc = "post"
    /\ \E status \in {404, 204} :
          rest_call' = NextVersion(Logged(rest_call, status))
    /\ RestFrame

\* a 429 answered like any other failing status
PostRateLimitedAsError ==
    /\ rest_call.pc = "post"
    /\ rest_call' =
         NextVersion([Logged(rest_call, 429) EXCEPT !.last_error = TRUE])
    /\ RestFrame

\* lines 893-896 and 943-951: status 429 ends the attempts and the versions
\* of this key; the last key raises the rate-limit error, another key is
\* followed, after a sleep, by the next one
PostRateLimited ==
    /\ rest_call.pc = "post"
    /\ LET c == Logged(rest_call, 429)
       IN  rest_call' =
             IF c.key_index = c.api_keys
             THEN [c EXCEPT !.pc = "raised", !.error = "rate_limit"]
             ELSE [Slept(c, 5) EXCEPT !.key_index = @ + 1,
                                      !.api_version = 1,
                                      !.attempt = 0,
                                      !.retry_delay = 2]
    /\ RestFrame

\* a 503 retried after the same delay every time
PostUnavailableFixedDelay ==
    /\ rest_call.pc = "post"
    /\ LET c == Logged(rest_call, 503)
       IN  rest_call' =
             IF c.attempt < max_retries - 1
             THEN [Slept(c, c.retry_delay) EXCEPT !.attempt = @ + 1]
             ELSE NextVersion(c)
    /\ RestFrame

\* lines 898-904: status 503 is retried after a sleep of retry_delay
\* seconds, which is then doubled up to 30, while attempts are left, else
\* the attempts with this API version end
PostUnavailable ==
    /\ rest_call.pc = "post"
    /\ LET c == Logged(rest_call, 503)
       IN  rest_call' =
             IF c.attempt < max_retries - 1
             THEN [Slept(c, c.retry_delay) EXCEPT
                      !.attempt = @ + 1,
                      !.retry_delay = Min(c.retry_delay * 2, 30)]
             ELSE NextVersion(c)
    /\ RestFrame

\* lines 906 and 936-941: raise_for_status raises for another status, or
\* the request itself raises: the error is kept and the attempts with this
\* API version end
PostFails ==
    /\ rest_call.pc = "post"
    /\ \E status \in {500, 0} :
          rest_call' =
            NextVersion([Logged(rest_call, status) EXCEPT
                            !.last_error = TRUE])
    /\ RestFrame

\* lines 852-856 and 873-884: the key list holds the API key and, when
\* configured, the fallback key
RestInit ==
    /\ SupervisorIdle
    /\ NoTasks
    /\ request = NoRequest
    /\ response = NoResponse
    /\ auto_fix = NoAutoFix
    /\ \E n \in 1..2 :
          rest_call = [pc |-> "post", api_keys |-> n, key_index |-> 1,
                       api_version |-> 1, attempt |-> 0, retry_delay |-> 2,
                       last_error |-> FALSE, error |-> None, log |-> <<>>,
                       sleeps |-> <<>>]

RestNext ==
    \/ PostReturnsText
    \/ PostNotUsable
    \/ PostRateLimited
    \/ PostUnavailable
    \/ PostFails

RestSpec == RestInit /\ [][RestNext]_vars

-----------------------------------------------------------------------------
(* GeneratorValidatorSupervisionService._compile_with_auto_fix, step by step *)

\* a source text of one call is its number of revisions; compile_func's
\* result for it
NoDiagnostics == <<>>
Diagnostics(code) == <<"compile error of revision", code>>
CompileResult(code, ok) ==
    [success |-> ok, code |-> code,
     error |-> IF ok THEN NoDiagnostics ELSE Diagnostics(code)]

\* the source texts the agents hand back: revision 0 is the text of
\* generate_*_program, revision n the text of the n-th revise_*_program
GeneratorRevisions ==
    <<"generator.1.cpp", "generator.2.cpp", "generator.3.cpp",
      "generator.4.cpp", "generator.5.cpp">>
ValidatorRevisions ==
    <<"validator.1.cpp", "validator.2.cpp", "validator.3.cpp",
      "validator.4.cpp", "validator.5.cpp">>
GeneratorRevision(n) ==
    IF n = 0 THEN GeneratorSource ELSE GeneratorRevisions[n]
ValidatorRevision(n) ==
    IF n = 0 THEN ValidatorSource ELSE ValidatorRevisions[n]

\* the loop condition with one pass too many
FixesLeftInclusive(c) == c.fix_attempt <= max_compilation_fixes

\* line 67: while fix_attempt < self.max_compilation_fixes
FixesLeft(c) == c.fix_attempt < max_compilation_fixes

AutoFixFrame ==
    UNCHANGED <<supervisor_vars, shared_vars, request, response, rest_call>>

\* lines 69-73: compile_func(current_code) succeeds and the call returns
\* the result with the code
AutoFixCompileSucceeds ==
    /\ auto_fix.pc = "compile"
    /\ auto_fix' =
         [auto_fix EXCEPT
            !.compile_result = CompileResult(auto_fix.current_code, TRUE),
            !.compiled = Append(@, auto_fix.current_code),
            !.pc = "returned"]
    /\ AutoFixFrame

\* lines 69-92: compile_func(current_code) fails, the attempt is counted and
\* revise_func is awaited with the code and compile_result["error"]
AutoFixCompileFails ==
    /\ auto_fix.pc = "compile"
    /\ LET compile_result == CompileResult(auto_fix.current_code, FALSE)
       IN  auto_fix' =
             [auto_fix EXCEPT
                !.compile_result = compile_result,
                !.compiled = Append(@, auto_fix.current_code),
                !.fix_attempt = @ + 1,
                !.revised = Append(@,
                    [code |-> auto_fix.current_code,
                     compilation_error |-> compile_result.error]),
                !.pc = "revise"]
    /\ AutoFixFrame

\* lines 94-106 and 67: revise_func answers, its code becomes the current
\* code, and the loop goes on or ends (lines 113-115)
AutoFixReviseReturns ==
    /\ auto_fix.pc = "revise"
    /\ auto_fix' =
         [auto_fix EXCEPT
            !.current_code = @ + 1,
            !.pc = IF FixesLeft(auto_fix) THEN "compile" ELSE "returned"]
    /\ AutoFixFrame

\* lines 108-115: revise_func raises, the loop breaks
AutoFixReviseRaises ==
    /\ auto_fix.pc = "revise"
    /\ auto_fix' = [auto_fix EXCEPT !.pc = "returned"]
    /\ AutoFixFrame

\* lines 246-262: the call for the generator has returned
GeneratorAutoFixReturned ==
    /\ auto_fix.pc = "returned"
    /\ auto_fix.code_type = "gerador"
    /\ pc = "compile_generator"
    /\ auto_fix' = [auto_fix EXCEPT !.pc = "resumed"]
    /\ generator_code' = GeneratorRevision(auto_fix.current_code)
    /\ IF auto_fix.compile_result.success
       THEN /\ generator_executable' = GeneratorExe
            /\ compilation_errors' = None
            /\ pc' = "validator_agent"
            /\ UNCHANGED validation_errors
       ELSE /\ compilation_errors' = GeneratorDiagnostics
            /\ validation_errors' = <<>>
            /\ pc' = "loop_top"
            /\ UNCHANGED generator_executable
    /\ UNCHANGED <<target_count, examples, iteration,
                   generator_commands, validator_code, sample_inputs,
                   validation_outputs, validator_executable, valid_cases,
                   test_cases, result, llm_invoked, insertion_order,
                   oracle_log, compiler>>
    /\ UNCHANGED <<shared_vars, request, response, rest_call>>

\* lines 304-352: the call for the validator has returned and its code is
\* the validator source; sample_inputs is empty (line 194, or no example
\* has an input), so line 323 is false
ValidatorAutoFixReturned ==
    /\ auto_fix.pc = "returned"
    /\ auto_fix.code_type = "validador"
    /\ pc = "compile_validator"
    /\ sample_inputs = <<>>
    /\ auto_fix' = [auto_fix EXCEPT !.pc = "resumed"]
    /\ validator_code' = ValidatorRevision(auto_fix.current_code)
    /\ IF auto_fix.compile_result.success
       THEN /\ validator_executable' \in Validators
            /\ compilation_errors' = None
            /\ pc' = "validate_samples"
            /\ UNCHANGED validation_errors
       ELSE /\ compilation_errors' = ValidatorCompileDiagnostics
            /\ validation_errors' = <<>>
            /\ pc' = "loop_top"
            /\ UNCHANGED validator_executable
    /\ UNCHANGED <<target_count, examples, iteration, generator_code,
                   generator_commands, generator_executable, sample_inputs,
                   validation_outputs, valid_cases, test_cases, result,
                   llm_invoked, insertion_order, oracle_log, compiler>>
    /\ UNCHANGED <<shared_vars, request, response, rest_call>>

\* the supervisor in its first iteration at line 246, or at line 304
AutoFixInit ==
    /\ \E code_type \in {"gerador", "validador"} :
          /\ auto_fix = [pc |-> "compile", code_type |-> code_type,
                         current_code |-> 0, fix_attempt |-> 0,
                         compile_result |-> CompileResult(0, FALSE),
                         compiled |-> <<>>, revised |-> <<>>]
          /\ IF code_type = "gerador"
             THEN /\ pc = "compile_generator"
                  /\ validator_code = None
                  /\ generator_executable = None
             ELSE /\ pc = "compile_validator"
                  /\ validator_code = ValidatorSource
                  /\ generator_executable = GeneratorExe
    /\ target_count \in 1..MaxTarget
    /\ examples \in {<<>>} \cup { <<e>> : e \in ExampleInputs }
    /\ iteration = 1
    /\ generator_code = GeneratorSource
    /\ generator_commands \in 1..MaxCommands
    /\ validation_errors = <<>>
    /\ compilation_errors = None
    /\ sample_inputs = <<>>
    /\ validation_outputs = <<>>
    /\ validator_executable = NoExecutable
    /\ valid_cases = <<>>
    /\ test_cases = <<>>
    /\ result = <<>>
    /\ llm_invoked = TRUE
    /\ insertion_order = <<>>
    /\ oracle_log = <<>>
    /\ compiler = CompilerPath
    /\ request = NoRequest
    /\ response = NoResponse
    /\ rest_call = NoRestCall
    /\ NoTasks

AutoFixNext ==
    \/ AutoFixCompileSucceeds
    \/ AutoFixCompileFails
    \/ AutoFixReviseReturns
    \/ AutoFixReviseRaises
    \/ GeneratorAutoFixReturned
    \/ ValidatorAutoFixReturned

AutoFixSpec == AutoFixInit /\ [][AutoFixNext]_vars

\* the supervisor in its second iteration at line 246, or at line 304, with
\* one candidate accumulated in the first iteration by the executables
\* compiled then from the first texts; the generator agent has handed back
\* a revision (line 240), and so has the validator agent at line 304
\* (line 283), where the generator revision has been compiled (line 261)
LaterFixInit ==
    /\ \E code_type \in {"gerador", "validador"} :
          /\ auto_fix = [pc |-> "compile", code_type |-> code_type,
                         current_code |-> 1, fix_attempt |-> 0,
                         compile_result |-> CompileResult(1, FALSE),
                         compiled |-> <<>>, revised |-> <<>>]
          /\ IF code_type = "gerador"
             THEN /\ pc = "compile_generator"
                  /\ validator_code = ValidatorRevision(0)
             ELSE /\ pc = "compile_validator"
                  /\ validator_code = ValidatorRevision(1)
    /\ target_count \in 2..MaxTarget
    /\ examples = <<>>
    /\ iteration = 2
    /\ generator_code = GeneratorRevision(1)
    /\ generator_commands \in 1..MaxCommands
    /\ validation_errors = <<>>
    /\ compilation_errors = None
    /\ sample_inputs = <<>>
    /\ validation_outputs = <<>>
    /\ generator_executable = GeneratorExe
    /\ \E c \in Candidates :
          /\ valid_cases = <<c>>
          /\ insertion_order = <<c>>
          /\ \E v \in Validators :
                /\ v[c] = ValidatorOk
                /\ validator_executable = v
    /\ test_cases = <<>>
    /\ result = <<>>
    /\ llm_invoked = TRUE
    /\ oracle_log = <<>>
    /\ compiler = CompilerPath
    /\ request = NoRequest
    /\ response = NoResponse
    /\ rest_call = NoRestCall
    /\ NoTasks

\* the call of _compile_with_auto_fix, and when it fails the head of the
\* loop with the time used up and the return of lines 613-637
LaterFixNext ==
    \/ AutoFixCompileSucceeds
    \/ AutoFixCompileFails
    \/ AutoFixReviseReturns
    \/ AutoFixReviseRaises
    \/ GeneratorAutoFixReturned
    \/ ValidatorAutoFixReturned
    \/ LoopTimeout
    \/ FinalOracleAndReturn

LaterFixSpec == LaterFixInit /\ [][LaterFixNext]_vars

-----------------------------------------------------------------------------
(* Candidate filtering of one iteration, on given generated inputs *)

\* the diagnostics of the validators that filter: the two of the loop and
\* one that line 497 matches by "Expected" alone
FilterDiagnostics == ValidatorDiagnostics \cup {"Expected integer"}

FilterValidators ==
    { v \in [InputStrings -> {ValidatorOk} \cup FilterDiagnostics] :
        \A t \in InputStrings :
            ~endswith_nl(t) => v[t] \in {ValidatorOk, "Expected EOLN"} }

\* generated_inputs of lines 465-468, the accumulator they met, and the
\* oracle children of lines 560-561 when the diversity stage is reached
GeneratedInputsOf(inputs, accumulated, oracle_runs) ==
    [service |-> "generated_inputs", inputs |-> inputs,
     accumulated |-> accumulated, oracle_runs |-> oracle_runs]

\* the supervisor at line 457 of its first iteration, or of its second with
\* one candidate accumulated; the validator in use accepted the examples
\* (lines 362-369)
FilterInit ==
    /\ pc = "run_generator"
    /\ target_count \in 1..MaxTarget
    /\ examples \in {<<>>} \cup { <<e>> : e \in ExampleInputs }
    /\ sample_inputs = examples
    /\ generator_code = GeneratorSource
    /\ generator_commands \in 1..MaxCommands
    /\ validator_code = ValidatorSource
    /\ validation_errors = <<>>
    /\ compilation_errors = None
    /\ validation_outputs = <<>>
    /\ generator_executable = GeneratorExe
    /\ \E v \in FilterValidators :
          /\ FailedSamples(v, examples) = <<>>
          /\ validator_executable = v
    /\ \E accumulated \in {<<>>} \cup { <<c>> : c \in InputStrings } :
          /\ Len(accumulated) < target_count
          /\ valid_cases = accumulated
          /\ insertion_order = accumulated
          /\ iteration = Len(accumulated) + 1
          /\ \E inputs \in BatchInputs :
               \E oracle_runs \in
                     (IF DiversityStage(FilterBatch(inputs,
                             validator_executable, accumulated))
                      THEN DiversityOracleRuns ELSE {<<>>}) :
                  response =
                      GeneratedInputsOf(inputs, accumulated, oracle_runs)
    /\ test_cases = <<>>
    /\ result = <<>>
    /\ llm_invoked = TRUE
    /\ oracle_log = <<>>
    /\ compiler = CompilerPath
    /\ request = NoRequest
    /\ rest_call = NoRestCall
    /\ auto_fix = NoAutoFix
    /\ NoTasks

\* lines 457-603 on the generated inputs, then the head of the loop (with
\* time left) and the generator agent of the next iteration
FilterNext ==
    \/ GeneratorProducesNothingFor(response.inputs)
    \/ AllCandidatesValidFor(response.inputs)
    \/ SomeCandidatesValidFor(response.inputs)
    \/ BelowTargetFor(response.inputs)
    \/ DiversityNoOutputsWith(response.inputs, response.oracle_runs)
    \/ DiversityRejectedWith(response.inputs, response.oracle_runs)
    \/ DiversityAcceptedWith(response.inputs, response.oracle_runs)
    \/ LoopTargetReached
    \/ LoopIterationCap
    \/ LoopEnter
    \/ ReviseGenerator
    \/ GeneratorAgentRaises

FilterSpec == FilterInit /\ [][FilterNext]_vars

-----------------------------------------------------------------------------
(* Contracts of the stateless services *)

Executed == response.service = "execute"

\* C19: a child that exits after writing more than the cap of bytes to its
\* stdout gets a record with success = false
C19_OverCapIsFailure ==
    ( /\ Executed
      /\ request.tempfile = "ok"
      /\ request.child.outcome = "exited"
      /\ encoded_size(request.child.stdout) > max_output_size )
        => ~response.value.success

ExitedWithZero(run) == run.outcome = "exited" /\ run.returncode = 0

\* C20: a validator that exits with status 0 gives valid = true; any other
\* exit status, a timeout or a spawn exception gives valid = false with a
\* non-empty error message; the batch hands back one result per candidate,
\* in the candidates' order, and does not raise
C20_ExitStatusDecides ==
    response.service = "validate_test_cases_batch" =>
        /\ ~response.raised
        /\ Len(response.value) = Len(request.test_cases)
        /\ \A i \in 1..Len(request.test_cases) :
              LET r == response.value[i]
                  run == request.runs[i]
              IN  /\ r.index = i - 1
                  /\ r.input_preview = input_preview(request.test_cases[i])
                  /\ ExitedWithZero(run) => r.valid
                  /\ ~ExitedWithZero(run) =>
                        /\ ~r.valid
                        /\ r.error_message # <<>>
                        /\ strip(r.error_message) # <<>>

C20_Witness ==
    /\ response.service = "validate_test_cases_batch"
    /\ Len(response.value) = 2
    /\ request.test_cases[1] # request.test_cases[2]
    /\ request.runs[1].outcome = "exited"
    /\ request.runs[1].returncode = 3
    /\ request.runs[1].stderr = <<NL>>
    /\ request.runs[1].stdout = <<" ">>
    /\ ~response.value[1].valid
    /\ response.value[1].error_message
          = <<"Validator returned exit code", "3">>
    /\ request.runs[2].returncode = 0
    /\ request.runs[2].stderr # <<>>
    /\ response.value[2].valid

LlmFailed == request.reply.outcome = "raises"
Unparseable == request.reply.outcome = "text" /\ request.reply.hits = {}
SchemaRejected ==
    /\ request.reply.outcome = "text"
    /\ request.reply.hits # {}
    /\ \/ request.reply.payload.kind # "object"
       \/ request.reply.payload.input_structure = "absent"
       \/ request.reply.payload.total_lines = <<>>
       \/ \E i \in 1..Len(request.reply.payload.lines) :
              request.reply.payload.lines[i] \notin LineTypes

C16_OwnExecutablesOnly ==
    \A e \in executed : e.binary = e.source

-----------------------------------------------------------------------------
(* Contracts of the generator runner and of the agents *)

GeneratorRunFails(run) ==
    \/ run.outcome = "timeout"
    \/ run.outcome = "exception"
    \/ run.returncode # 0
    \/ run.stdout = <<>>
    \/ \A i \in 1..Len(run.stdout) : run.stdout[i] \in Whitespace

\* C21: a success of generate_test_case carries an input that is not blank
\* and ends with exactly one newline; a blank stdout, a non-zero exit status
\* and a timeout each give success = false with no input
C21_OneNewlineOrFailure ==
    response.service = "generate_test_case" =>
        LET r == response.value
            n == Len(r.input_data)
        IN  /\ r.success =>
                  /\ strip(r.input_data) # <<>>
                  /\ r.input_data[n] = NL
                  /\ n >= 2 => r.input_data[n - 1] # NL
            /\ GeneratorRunFails(request.run) =>
                  /\ ~r.success
                  /\ r.input_data = NoText

C21_Witness ==
    /\ response.service = "generate_test_case"
    /\ request.run.outcome = "exited"
    /\ request.run.returncode = 0
    /\ request.run.stdout = <<"a", NL, NL>>
    /\ response.value.success
    /\ response.value.input_data = <<"a", NL>>

\* C22: every command of the list the generator agent hands back uses only
\* flags that the source it hands back declares as options
C22_OnlyDeclaredFlags ==
    (response.service = "generate_generator_program" /\ ~response.raised) =>
        \A i \in 1..Len(response.value.generator_commands) :
            response.value.generator_commands[i]
                \subseteq extract_opt_params(response.value.generator_code)

RestCalled == rest_call.pc # "none" /\ rest_call.log # <<>>
LastPost == rest_call.log[Len(rest_call.log)]

\* C23: after a request with a key got status 429 no further request is
\* sent with that key; the call has moved to the backup key when there is
\* one, and has failed with the rate-limit error, not returned a text, when
\* the key was the last one
C23_RateLimitExhaustsKey ==
    RestCalled =>
        /\ \A i, j \in 1..Len(rest_call.log) :
              (i < j /\ rest_call.log[i].status = 429)
                  => rest_call.log[j].key # rest_call.log[i].key
        /\ LastPost.status = 429 =>
              IF LastPost.key < rest_call.api_keys
              THEN /\ rest_call.pc = "post"
                   /\ rest_call.key_index = LastPost.key + 1
                   /\ rest_call.api_version = 1
                   /\ rest_call.attempt = 0
              ELSE /\ rest_call.pc = "raised"
                   /\ rest_call.error = "rate_limit"

C23_Witness ==
    /\ RestCalled
    /\ rest_call.api_keys = 2
    /\ rest_call.pc = "raised"
    /\ rest_call.error = "rate_limit"
    /\ Len(rest_call.log) = 3
    /\ rest_call.log[1] = [key |-> 1, api_version |-> "v1", status |-> 503]
    /\ rest_call.log[2] = [key |-> 1, api_version |-> "v1", status |-> 429]
    /\ rest_call.log[3] = [key |-> 2, api_version |-> "v1", status |-> 429]

AutoFixReturned == auto_fix.pc \in {"returned", "resumed"}
GeneratorSkipped ==
    /\ auto_fix.pc = "resumed"
    /\ auto_fix.code_type = "gerador"
    /\ ~auto_fix.compile_result.success

\* C24: one call of _compile_with_auto_fix compiles at most
\* max_compilation_fixes times and awaits revise at most as often, each
\* revise gets the code that failed with the diagnostics of that failure,
\* a successful compile is the last step before the return, and after a
\* generator that did not compile the supervisor is back at the head of the
\* loop with no validator synthesized and nothing generated or validated
C24_BoundedAutoFix ==
    auto_fix.pc # "none" =>
        /\ Len(auto_fix.compiled) <= max_compilation_fixes
        /\ Len(auto_fix.revised) <= max_compilation_fixes
        /\ \A i \in 1..Len(auto_fix.revised) :
              /\ auto_fix.revised[i].code = auto_fix.compiled[i]
              /\ auto_fix.revised[i].compilation_error =
                    Diagnostics(auto_fix.compiled[i])
        /\ (auto_fix.compiled # <<>> /\ auto_fix.compile_result.success) =>
              /\ AutoFixReturned
              /\ Len(auto_fix.revised) = Len(auto_fix.compiled) - 1
        /\ GeneratorSkipped =>
              /\ pc = "loop_top"
              /\ iteration = 1
              /\ validator_code = None
              /\ validator_executable = NoExecutable
              /\ valid_cases = <<>>
              /\ validation_outputs = <<>>

C24_Witness ==
    /\ GeneratorSkipped
    /\ Len(auto_fix.compiled) = max_compilation_fixes
    /\ Len(auto_fix.revised) = max_compilation_fixes
    /\ pc = "loop_top"

RevisionUsable ==
    /\ response.service = "revise_generator_program"
    /\ request.reply.outcome = "text"
    /\ request.reply.delimited
    /\ request.reply.code.complete

\* C25: a revision that the LLM answers with a complete generator source
\* between the markers hands that source and its command list back, to
\* replace the current generator of the iteration
C25_RevisionReplacesGenerator ==
    RevisionUsable =>
        /\ ~response.raised
        /\ response.value.generator_code # None

\* C26: at the sample check the minimal validator takes the place of the
\* synthesized one only when the samples were already rejected in an
\* earlier iteration (validation_outputs holds the diagnostics of the last
\* rejection and is never emptied)
C26_MinimalAfterPersistentRejection ==
    [][(/\ pc = "validate_samples"
        /\ validator_code # MinimalValidatorSource
        /\ validator_code' = MinimalValidatorSource)
          => validation_outputs # <<>>]_vars

AtValidatorCompile ==
    /\ pc = "compile_validator"
    /\ examples # <<>>
    /\ compiler # None

\* C27: whenever the validator of a problem with worked examples is at its
\* compile, in any iteration, the step that compiles the minimal validator
\* built from the samples and carries on with it in the same iteration is
\* possible
C27_FallbackFromFirstFailure ==
    AtValidatorCompile => ENABLED MinimalValidatorCompiles

BatchGenerated == response.service = "generate_test_cases_batch"

\* C28: a batch holds one result for each of the first commands, in command
\* order and with the command's own outcome, as many as there are commands
\* but not more than max_cases, so at most max_cases = 2 * target_count
\* candidates come out of it
C28_BatchCappedInOrder ==
    BatchGenerated =>
        LET results == response.value
        IN  /\ Len(results) = Min(Len(request.commands), request.max_cases)
            /\ Len(SuccessfulInputs(results)) <= request.max_cases
            /\ \A i \in 1..Len(results) :
                  /\ results[i].command = request.commands[i]
                  /\ results[i].index = i - 1
                  /\ results[i].success =
                        generate_test_case(request.runs[i]).success
                  /\ results[i].input_data =
                        generate_test_case(request.runs[i]).input_data

C28_Witness ==
    /\ BatchGenerated
    /\ Len(request.commands) = 3
    /\ request.max_cases = 2
    /\ Len(response.value) = 2
    /\ ~response.value[1].success
    /\ response.value[2].success
    /\ generate_test_case(request.runs[3]).success

\* the candidates of the iteration as the claims speak of them
Filtered ==
    /\ response.service = "generated_inputs"
    /\ response.inputs # <<>>
    /\ pc # "run_generator"
CandidateRejected(i) ==
    validator_executable[response.inputs[i]] # ValidatorOk
CandidateMarked(i) ==
    /\ CandidateRejected(i)
    /\ validator_executable[response.inputs[i]]
          \in {"Expected EOLN", "Expected integer"}
RetryForm(x) ==
    IF x[Len(x)] = NL THEN SubSeq(x, 1, Len(x) - 1) ELSE x \o <<NL>>
RetryAccepted(i) ==
    /\ CandidateMarked(i)
    /\ validator_executable[RetryForm(response.inputs[i])] = ValidatorOk
RECURSIVE RetriedForms(_)
RetriedForms(i) ==
    IF i > Len(response.inputs) THEN <<>>
    ELSE (IF CandidateMarked(i)
          THEN <<RetryForm(response.inputs[i])>> ELSE <<>>)
         \o RetriedForms(i + 1)
RECURSIVE AcceptedRetries(_)
AcceptedRetries(i) ==
    IF i > Len(response.inputs) THEN <<>>
    ELSE (IF RetryAccepted(i)
          THEN <<RetryForm(response.inputs[i])>> ELSE <<>>)
         \o AcceptedRetries(i + 1)
RECURSIVE AcceptedOriginals(_)
AcceptedOriginals(i) ==
    IF i > Len(response.inputs) THEN <<>>
    ELSE (IF ~CandidateRejected(i) THEN <<response.inputs[i]>> ELSE <<>>)
         \o AcceptedOriginals(i + 1)
RECURSIVE StandingMessages(_)
StandingMessages(i) ==
    IF i > Len(response.inputs) THEN <<>>
    ELSE (IF CandidateRejected(i) /\ ~RetryAccepted(i)
          THEN << <<validator_executable[response.inputs[i]]>> >>
          ELSE <<>>)
         \o StandingMessages(i + 1)
AllRejected == \A i \in 1..Len(response.inputs) : CandidateRejected(i)
AccumulatorAfterFiltering ==
    response.accumulated \o AcceptedRetries(1) \o AcceptedOriginals(1)
DiversityReached ==
    AllRejected /\ Len(AccumulatorAfterFiltering) >= target_count

\* C29: the validator is run again, once, on the retry form of each
\* candidate whose rejection message has "EOLN" or "Expected" and on
\* nothing else; the accumulator after filtering is the one before it, the
\* retry forms that were accepted and the candidates accepted as generated,
\* and no rejected candidate in its original form
C29_RetryOnceOnMarkedRejections ==
    Filtered =>
        /\ FilterBatch(response.inputs, validator_executable,
                       response.accumulated).revalidated = RetriedForms(1)
        /\ ~DiversityReached => valid_cases = AccumulatorAfterFiltering

C29_Witness ==
    /\ Filtered
    /\ Len(response.inputs) = 2
    /\ validator_executable[response.inputs[1]] = "Integer violates the range"
    /\ validator_executable[response.inputs[2]] = "Expected integer"
    /\ RetryAccepted(2)
    /\ response.accumulated = <<>>
    /\ valid_cases = <<RetryForm(response.inputs[2])>>

\* C30 as stated: after filtering the error log is empty only when no
\* candidate of the iteration stayed rejected
C30_ResetOnlyWithoutRejection ==
    (Filtered /\ validation_errors = <<>>) =>
        ~(\E i \in 1..Len(response.inputs) :
              CandidateRejected(i) /\ ~RetryAccepted(i))

\* C30 amended: the error log is empty when some candidate was accepted as
\* generated, and when every candidate was rejected with the accumulator
\* still below target_count it holds the messages of the rejections that
\* stood, up to the generator revision of the next iteration
C30_ErrorLogAfterFiltering ==
    Filtered =>
        /\ ~AllRejected => validation_errors = <<>>
        /\ (AllRejected /\ ~DiversityReached) =>
              validation_errors = StandingMessages(1)

C30_Witness ==
    /\ Filtered
    /\ pc = "compile_generator"
    /\ AllRejected
    /\ ~DiversityReached
    /\ Len(response.inputs) = 2
    /\ RetryAccepted(1)
    /\ Len(validation_errors) = 1

\* the pairs the diversity check of the iteration looked at
DiversityPairs ==
    IF DiversityReached
    THEN OraclePairs(SubSeq(AccumulatorAfterFiltering, 1, target_count),
                     response.oracle_runs)
    ELSE <<>>
OneRepeatedOutput ==
    /\ Len(DiversityPairs) >= 2
    /\ \A i \in 1..Len(DiversityPairs) :
          strip(DiversityPairs[i].output) = strip(DiversityPairs[1].output)
NamesOutput(report, out) ==
    \E i \in 1..Len(report) :
        /\ report[i][1] = "Saida repetida"
        /\ Tail(report[i]) = out

ValidatorCompilerOutput ==
    {ValidatorCompileDiagnostics, MinimalValidatorDiagnostics}

\* C33: the compilation diagnostics that revise_generator_program receives
\* are those of a generator compilation, or none; and the diagnostics of a
\* failed validator compilation stay in place until the validator agent is
\* called, so that its revise call receives them
C33_FeedbackReachesRelevantAgent ==
    /\ [](pc = "generator_agent" /\ generator_code # None =>
             revise_generator_arguments.compilation_errors
                 \in {None, GeneratorDiagnostics})
    /\ [][ ( /\ compilation_errors \in ValidatorCompilerOutput
             /\ compilation_errors' # compilation_errors ) =>
                /\ pc = "validator_agent"
                /\ revise_validator_arguments.compilation_errors
                      \in ValidatorCompilerOutput ]_vars

\* the validator child ended with one of the crash statuses
Crashed(run) == run.outcome = "exited" /\ run.returncode \in CrashStatuses

\* the result of a crash can be told from the result that the same output
\* gives with the exit status of a rejection
TaggedAsCrash(res, run) ==
    \/ "crash" \in DOMAIN res
    \/ res.error_message
          # validate_run([run EXCEPT !.returncode = 3]).error_message

\* C34: a validator run that ends with an access-violation status is
\* reported as invalid and tagged as a crash, distinct from a rejection
C34_CrashIsTagged ==
    response.service = "validate_test_cases_batch" =>
        \A i \in 1..Len(request.runs) :
            Crashed(request.runs[i]) =>
                /\ ~response.value[i].valid
                /\ TaggedAsCrash(response.value[i], request.runs[i])

\* the runs of the final oracle pass that ended with exit status 0
SucceededRuns == SelectSeq(oracle_log, LAMBDA run : run.returncode = 0)

\* C35: the final oracle pass runs once on each of the first target_count
\* accumulated candidates, and the returned suite has exactly one pair for
\* each of them whose run succeeded, in their order
C35_OnlyFailedRunsDropped ==
    Returned =>
        /\ Len(oracle_log) <= target_count
        /\ [i \in 1..Len(oracle_log) |-> oracle_log[i].input] = valid_cases
        /\ SuiteInputs
              = [i \in 1..Len(SucceededRuns) |-> SucceededRuns[i].input]

\* the texts from which the executables the loop holds were compiled: by
\* this call when it succeeded, else before it (the generator revision at
\* line 261 when the call is for the validator, the first texts otherwise)
GeneratorBuiltFrom ==
    IF auto_fix.code_type = "validador" THEN GeneratorRevision(1)
    ELSE IF auto_fix.compile_result.success
    THEN GeneratorRevision(auto_fix.compile_result.code)
    ELSE GeneratorRevision(0)
ValidatorBuiltFrom ==
    IF auto_fix.code_type = "validador" /\ auto_fix.compile_result.success
    THEN ValidatorRevision(auto_fix.compile_result.code)
    ELSE ValidatorRevision(0)

\* C36: the generator_code and the validator_code of a normal return are
\* the texts from which the generator and validator executables last used
\* by the loop were compiled
C36_ReturnedSourcesAreBuilt ==
    Returned =>
        /\ result[1].generator_code = GeneratorBuiltFrom
        /\ result[1].validator_code = ValidatorBuiltFrom

\* C37: when _compile_with_auto_fix returns, its compile result is the
\* outcome of compiling the code it returns
C37_ResultIsOfReturnedCode ==
    AutoFixReturned =>
        /\ auto_fix.compile_result.code = auto_fix.current_code
        /\ auto_fix.compiled # <<>>
        /\ auto_fix.compiled[Len(auto_fix.compiled)] = auto_fix.current_code

\* where the call is: the passes through the loop in order, and in each
\* pass the steps of the body before the head of the loop is met again
Position ==
    CASE pc = "infer_format" -> 0
      [] pc = "generator_agent" -> 1
      [] pc = "compile_generator" -> 2
      [] pc = "validator_agent" -> 3
      [] pc = "compile_validator" -> 4
      [] pc = "validate_samples" -> 5
      [] pc = "run_generator" -> 6
      [] pc = "loop_top" -> 7
      [] pc = "after_loop" -> 8
      [] OTHER -> 9
Progress == iteration * 10 + Position

\* C38: the call terminates when every agent call and child process
\* returns: the counter changes only at the head of the loop, each pass
\* through the body raises it by one and starts with it at most
\* max_iterations, and every step of the call moves it forward in the order
\* of the passes, which is bounded: no behaviour takes more than that
\* number of steps before the call returns or raises
C38_LoopTerminates ==
    /\ [][ /\ (pc = "loop_top" /\ pc' = "generator_agent") =>
                 /\ iteration' = iteration + 1
                 /\ iteration' <= max_iterations
           /\ pc # "loop_top" => iteration' = iteration
           /\ Progress' > Progress ]_vars
    /\ [](Progress <= (max_iterations + 1) * 10 + 9)

C38_Witness ==
    /\ pc = "raised"
    /\ iteration = max_iterations + 1
    /\ compilation_errors = ValidatorCompileDiagnostics
    /\ validation_outputs # <<>>

\* C39: on the REST path at most (configured keys, at most 2) x 2 API versions
\* x 5 attempts requests are sent and the call then returns text or raises;
\* a 503 is retried on the same key and API version after a delay that starts
\* at 2 s, doubles after each retry and never exceeds 30 s; a 404 is followed
\* by the next API version, with no retry and no delay
RequestLimit == rest_call.api_keys * 2 * 5
SamePlace(i, j) ==
    /\ rest_call.log[i].key = rest_call.log[j].key
    /\ rest_call.log[i].api_version = rest_call.log[j].api_version
AttemptOf(i) == Cardinality({j \in 1..(i - 1) : SamePlace(i, j)})
SleptAfter(i) ==
    {rest_call.sleeps[k].seconds :
        k \in {n \in 1..Len(rest_call.sleeps) :
                    rest_call.sleeps[n].request = i}}
FollowedByNextVersion(i) ==
    \/ /\ rest_call.log[i + 1].key = rest_call.log[i].key
       /\ rest_call.log[i].api_version = "v1"
       /\ rest_call.log[i + 1].api_version = "v1beta"
    \/ /\ rest_call.log[i + 1].key = rest_call.log[i].key + 1
       /\ rest_call.log[i].api_version = "v1beta"
       /\ rest_call.log[i + 1].api_version = "v1"
C39_BoundedRequestsAndBackoff ==
    rest_call.pc # "none" =>
        /\ rest_call.api_keys <= 2
        /\ Len(rest_call.log) <= RequestLimit
        /\ rest_call.pc \in {"post", "returned", "raised"}
        /\ rest_call.pc = "post" => Len(rest_call.log) < RequestLimit
        /\ rest_call.pc = "returned" => LastPost.status = 200
        /\ rest_call.pc = "raised" => rest_call.error # None
        /\ \A i \in 1..Len(rest_call.log) :
              /\ AttemptOf(i) < 5
              /\ (rest_call.log[i].status = 503 /\ AttemptOf(i) < 4) =>
                    /\ SleptAfter(i) =
                          {IF AttemptOf(i) = 0 THEN 2
                           ELSE 2 * CHOOSE d \in SleptAfter(i - 1) : TRUE}
                    /\ \A d \in SleptAfter(i) : d <= 30
                    /\ i = Len(rest_call.log) =>
                          /\ rest_call.pc = "post"
                          /\ rest_call.key_index = rest_call.log[i].key
                          /\ ApiVersions[rest_call.api_version] =
                               rest_call.log[i].api_version
                          /\ rest_call.attempt = AttemptOf(i) + 1
                    /\ i < Len(rest_call.log) =>
                          /\ SamePlace(i, i + 1)
                          /\ AttemptOf(i + 1) = AttemptOf(i) + 1
              /\ rest_call.log[i].status = 404 =>
                    /\ SleptAfter(i) = {}
                    /\ i < Len(rest_call.log) => FollowedByNextVersion(i)
                    /\ i = Len(rest_call.log) =>
                          \/ rest_call.pc = "raised"
                          \/ /\ rest_call.pc = "post"
                             /\ rest_call.attempt = 0
                             /\ <<rest_call.key_index,
                                   ApiVersions[rest_call.api_version]>> #
                                  <<rest_call.log[i].key,
                                    rest_call.log[i].api_version>>
C39_Witness ==
    /\ rest_call.pc = "raised"
    /\ rest_call.api_keys = 2
    /\ \E k \in 1..Len(rest_call.sleeps) : rest_call.sleeps[k].seconds = 16
    /\ \E i \in 1..(Len(rest_call.log) - 1) :
          /\ rest_call.log[i].status = 404
          /\ FollowedByNextVersion(i)

\* the run that sends the most requests: every request of both keys is
\* answered 503
C39_LimitReached ==
    /\ rest_call.pc = "raised"
    /\ Len(rest_call.log) = RequestLimit
    /\ rest_call.api_keys = 2

\* C40: inside the loop the accumulator valid_cases is left unchanged by every
\* iteration that ends before candidate filtering (agent exception, compile
\* failure, sample rejection, no generated input); an iteration that filters
\* candidates only appends to it; the only step that removes candidates is a
\* diversity rejection, which empties it
InLoop == pc \notin {"idle", "after_loop", "returned", "raised"}
Filtering ==
    /\ pc = "run_generator"
    /\ validation_errors' # <<NothingGenerated>>
OnlyGrows ==
    /\ Len(valid_cases') >= Len(valid_cases)
    /\ SubSeq(valid_cases', 1, Len(valid_cases)) = valid_cases
DiversityRejection ==
    /\ pc = "run_generator"
    /\ pc' = "loop_top"
    /\ Len(validation_errors') = 5
    /\ Len(validation_errors'[1]) = 3
    /\ validation_errors'[1][1] = DiversityReport
C40_AccumulatorFrame ==
    [][ InLoop =>
          /\ ~Filtering => valid_cases' = valid_cases
          /\ Filtering => (OnlyGrows \/ DiversityRejection)
          /\ DiversityRejection => valid_cases' = <<>>
          /\ ~OnlyGrows => DiversityRejection ]_vars
C40_Witness ==
    /\ pc = "loop_top"
    /\ DiversityReported
    /\ valid_cases = <<>>
    /\ iteration >= 2

====
